---- MODULE Spec2Model ----
(***************************************************************************)
(* PythonEDA application shell (pythoneda/shared/application/pythoneda.py) *)
(* as a state machine: the event dispatch engine (accept), the emission    *)
(* gateway (emit), the one-shot flag (accept_one_shot) and the entry-point *)
(* scheduler (accept_input); and accept of the earlier PythonEDA class     *)
(* (pythoneda/application/pythoneda.py), given the same bindings.          *)
(***************************************************************************)
EXTENDS Integers, Sequences, FiniteSets, TLC

\* ------------------------------------------------------------------ bounds
\* The size of a scenario: the outer calls of accept and the events they are
\* given, the listener classes bound, the events the listeners and the
\* self-triggers return, the writes of the one-shot flag, and the emitters.
MaxSize == 6

\* The interpreter's recursion limit, in frames of accept.
MaxDepth == 5

\* The number of primary ports registered.
MaxPorts == 2

\* The number of adapter classes in the infrastructure modules, and of
\* applications of the enable decorator.
MaxAdapters == 2

\* The number of calls of instance().
MaxCallers == 3

\* The length of sys.path before fix_syspath.
MaxPath == 3

\* ------------------------------------------------------------- data model
\* Event values. Events are opaque: they are numbered in the order in which
\* they first appear in an input, a listener result or a self-trigger result.
Events == 1..MaxSize

\* event.__class__ : every event value of the model is of a class of its own.
TypeOf(e) == e

Types == {TypeOf(e) : e \in Events}

\* A listener class is a plain EventListener, or a PrimaryPort whose
\* is_one_shot_compatible is True or False. "unread": accept has not looked
\* at the class yet.
Kinds == {"listener", "primary_compatible", "primary_incompatible"}

issubclass_PrimaryPort(kind) == kind # "listener"

is_one_shot_compatible(kind) == kind = "primary_compatible"

Range(s) == {s[n] : n \in 1..Len(s)}

\* Python's None, where the model has a number.
None == 0

\* A listener result or a self-trigger result not given yet.
Unset == <<0>>

\* The listeners of an event class not looked up yet.
Unbound == <<[kind |-> "unbound", returns |-> Unset]>>

Unread == [kind |-> "unread", returns |-> Unset]

VARIABLES
    one_shot,      \* PythonEDA._one_shot
    listeners,     \* EventListener.listeners_for: event class -> listener classes,
                   \* each with what its accept returns for the event of the class
    triggers,      \* what event.maybe_trigger() returns
    emitters,      \* Ports.instance().resolve(EventEmitter)
    stack,         \* the frames of the nested accept calls, outermost first
    status,        \* of the outer accept call: idle, running, returned, RecursionError
    tasks,         \* the emit tasks created and not yet run, oldest first
    delivered,     \* the event_emitter.emit calls made, <<emitter, event>>
    known,         \* how many event values have appeared so far
    size,          \* the size of the scenario so far
    input,         \* the events of the outer call
    outcome,       \* the list the outer call returned
    flagAtStart,   \* one_shot when the outer call started
    flagChanged,   \* one_shot was written during the outer call
    lastDecision,  \* the last listener check of accept
    scheduled,     \* the events given to create_task(emit) in the outer call
    produced,      \* the events produced in the outer call, in the order of
                   \* their first production
    prev,          \* the previous outer call that returned
    primary_ports,           \* PythonEDA._primary_ports, in registration order
    sorted_primary_ports,    \* accept_input's local primary_ports
    primary_port_instances,  \* accept_input's local primary_port_instances
    configured,              \* the port.configure() calls made, in order
    entered,                 \* the entrypoint(self) calls made, in order
    input_pc,                \* where accept_input is
    port_facts,              \* what has been read of each primary port class
    in_progress,             \* the entrypoint calls that have not returned
    raised,                  \* what raised the exception that left accept_input
    next_port,               \* the loop position of the earlier accept_input
    suspended,     \* the outer accept call that is suspended while this one runs
    pool,          \* the adapter classes the infrastructure modules define
    boot,          \* the startup: what enable and initialize have done
    singleton,     \* PythonEDA._singleton and the calls of instance()
    memo,          \* the file tree and the caches of the layer queries
    sys_path       \* sys.path, and what it was before fix_syspath

dispatchVars == <<one_shot, listeners, triggers, emitters, stack, status, tasks,
                  delivered, known, size, input, outcome, flagAtStart, flagChanged,
                  lastDecision, scheduled, produced, prev>>

schedVars == <<primary_ports, sorted_primary_ports, primary_port_instances,
               configured, entered, input_pc, port_facts, in_progress, raised,
               next_port>>

bootVars == <<pool, boot, singleton, memo, sys_path>>

vars == <<dispatchVars, schedVars, bootVars, suspended>>

obsVars == <<input, outcome, flagAtStart, flagChanged, prev>>

\* ---------------------------------------------------------------- helpers
\* Faulty variant: the items are appended without the membership test.
ExtendAllItems(first, second) == first \o second

RECURSIVE ExtendMissingInSession(_, _)
\* Faulty variant: the items are also tested against the list an earlier call returned,
\* a dedup session that outlives the call.
ExtendMissingInSession(first, second) ==
    IF second = <<>> THEN first
    ELSE ExtendMissingInSession(
             IF Head(second) \in Range(first) \cup Range(prev.result) THEN first
             ELSE Append(first, Head(second)),
             Tail(second))

RECURSIVE extend_missing_items(_, _)
\* [first.append(item) for item in second if item not in first]
extend_missing_items(first, second) ==
    IF second = <<>> THEN first
    ELSE extend_missing_items(
             IF Head(second) \in Range(first) THEN first
             ELSE Append(first, Head(second)),
             Tail(second))

\* if isinstance(eventOrEvents, Iterable): events = eventOrEvents
\* else: events = [eventOrEvents]
EventsOf(eventOrEvents) ==
    IF eventOrEvents.iterable THEN eventOrEvents.items
    ELSE <<eventOrEvents.items[1]>>

\* if eventOrEvents: an event is truthy, an empty list is not.
Truthy(eventOrEvents) == eventOrEvents.items # <<>>

SingleEvent(e) == [iterable |-> FALSE, items |-> <<e>>]

EventList(s) == [iterable |-> TRUE, items |-> s]

\* Faulty variant: the one-shot flag is not tested.
ListenerAlwaysEnabled(flag, kind) == TRUE

\* Faulty variant: while the flag is set every primary port is passed over.
ListenerEnabledUnlessPrimary(flag, kind) == ~flag \/ ~issubclass_PrimaryPort(kind)

\* not self.one_shot or (not issubclass(listener_class, PrimaryPort)
\*                       or listener_class.is_one_shot_compatible)
ListenerEnabled(flag, kind) ==
    ~flag \/ (~issubclass_PrimaryPort(kind) \/ is_one_shot_compatible(kind))

Max(a, b) == IF a >= b THEN a ELSE b

RECURSIVE KnownAfter(_, _)
\* The number of event values that have appeared once the events of s have.
KnownAfter(n, s) ==
    IF s = <<>> THEN n ELSE KnownAfter(Max(n, Head(s)), Tail(s))

RECURSIVE InOrderOfAppearance(_, _)
\* The lists of at most m events when n event values have appeared: an event
\* value that has not appeared yet is the next number.
InOrderOfAppearance(n, m) ==
    IF m <= 0 THEN {<<>>}
    ELSE {<<>>} \cup UNION {{<<e>> \o r : r \in InOrderOfAppearance(Max(n, e), m - 1)} :
                                e \in 1..(n + 1)}

\* The listener classes of an event class that accept has looked up.
Given(ls) == IF ls = Unbound THEN <<>> ELSE ls

\* The listener classes bound to an event class: fixed once looked up.
Bound(type) ==
    IF listeners[type] # Unbound THEN {listeners[type]}
    ELSE {[n \in 1..m |-> Unread] : m \in 0..(MaxSize - size)}

\* What accept reads of a listener class: fixed once read.
KindOf(kind) == IF kind # "unread" THEN {kind} ELSE Kinds

\* What accept may be given: one event, or a list of events.
Inputs ==
    {SingleEvent(e) : e \in {x \in Events : x <= known + 1 /\ size + 2 <= MaxSize}}
        \cup {EventList(s) : s \in InOrderOfAppearance(known, MaxSize - size - 1)}

\* A frame of accept: its events, the position of its loops (event i and
\* listener j of the fan-out, item k of the recursion) and its lists.
\* one_shot_at_call is the value of the flag when the call was made.
NewFrame(eventOrEvents) ==
    [events |-> IF Truthy(eventOrEvents) THEN EventsOf(eventOrEvents) ELSE <<>>,
     i |-> 1, j |-> 1,
     first_events |-> <<>>, result |-> <<>>, aux |-> <<>>, k |-> 1,
     one_shot_at_call |-> one_shot,
     pc |-> IF Truthy(eventOrEvents) /\ EventsOf(eventOrEvents) # <<>>
            THEN "fanout" ELSE "recurse"]

Top == stack[Len(stack)]

SetTop(f) == [stack EXCEPT ![Len(stack)] = f]

NoDecision == [event |-> 0, kind |-> "unread", flag |-> FALSE, start |-> FALSE,
               invoked |-> FALSE]

NoCall == [input |-> <<>>, flag |-> FALSE, stable |-> FALSE, result |-> <<>>]

\* No other outer call: nothing is suspended.
NoSuspended ==
    [stack |-> <<>>, status |-> "idle", input |-> <<>>, outcome |-> <<>>,
     flagAtStart |-> FALSE, flagChanged |-> FALSE, lastDecision |-> NoDecision,
     scheduled |-> <<>>, produced |-> <<>>, overlapped |-> FALSE]

\* ------------------------------------------------------------------- Init
\* The application after __init__ (self._one_shot = False), no call made.
DispatchIdle ==
    /\ one_shot = FALSE
    /\ listeners = [t \in Types |-> Unbound]
    /\ triggers = [e \in Events |-> Unset]
    /\ stack = <<>>
    /\ status = "idle"
    /\ tasks = <<>>
    /\ delivered = <<>>
    /\ known = 0
    /\ size = Len(emitters)
    /\ input = <<>>
    /\ outcome = <<>>
    /\ flagAtStart = FALSE
    /\ flagChanged = FALSE
    /\ lastDecision = NoDecision
    /\ scheduled = <<>>
    /\ produced = <<>>
    /\ prev = NoCall

SchedulerIdle ==
    /\ sorted_primary_ports = <<>>
    /\ primary_port_instances = <<>>
    /\ configured = <<>>
    /\ entered = <<>>
    /\ input_pc = "idle"
    /\ port_facts = [id \in 1..MaxPorts |->
                         [construction |-> "unread", compatible |-> "unread"]]
    /\ in_progress = <<>>
    /\ raised = "nothing"
    /\ next_port = 1

\* The infrastructure modules of a scenario's pool, and the three logging
\* modules initialize imports; the classes of the latter are outside the pool.
Modules == {1, 2}

LoggingModules == <<3, 4, 5>>

\* The domain ports (self.domain_ports), named after their module.
domain_ports == <<"plain", "event_emitter", "repo", "artifact_repository">>

\* The domain ports of pythoneda.application, which has no artifact
\* repository.
legacy_domain_ports == <<"plain", "event_emitter", "repo">>

Interfaces == {"PrimaryPort", "event_emitter", "repo", "artifact_repository",
               "plain"}

\* A class among the members of an infrastructure module: the module that
\* holds it, the interface it is a subclass of, whether it is that interface
\* itself (imported from the domain), abc.ABC among its bases or not, and
\* whether the other module imports it (it is then a member of both).
AdapterClasses ==
    [module : Modules, implements : Interfaces, itself : BOOLEAN,
     abstract : BOOLEAN, imported : BOOLEAN]

\* The classes of a startup scenario: concrete, each in its own module only,
\* primary ports, event emitters or adapters of the application's own port.
StartupClasses ==
    {c \in AdapterClasses :
        /\ ~c.itself
        /\ ~c.abstract
        /\ ~c.imported
        /\ c.implements \in {"PrimaryPort", "event_emitter", "plain"}}

\* An instance of adapter class c, as enable(instance) receives it.
Instance(c) == 0 - c

\* The arguments of enable(AdapterCls, *args, **kwargs).
EnableArgs == {1, 2}

NoResolution == [interface |-> "none", result |-> <<>>, repeated |-> FALSE]

BootStart ==
    [enabled_infrastructure_modules |-> <<>>,
     enabled_infrastructure_adapters |-> <<>>,
     enable_calls |-> <<>>,
     applied |-> <<>>,
     initialized |-> FALSE,
     ports_initialized |-> FALSE,
     mappings |-> [i \in Interfaces |-> Unset],
     logged |-> <<>>,
     logging_configured |-> FALSE,
     pending_logging |-> <<>>,
     logger |-> <<>>,
     first_resolved |-> [i \in Interfaces |-> Unset],
     last_resolved |-> NoResolution]

\* No call of instance() yet. `version` tells the class: the one of
\* pythoneda.shared.application or the one of pythoneda.application.
NoSingleton ==
    [version |-> "shared", object |-> None, constructed |-> <<>>,
     awaiting |-> <<>>, hook_completed |-> FALSE, returned |-> <<>>,
     names |-> <<>>]

\* The paths asked about, and the layers.
Paths == {"a", "b"}

Layers == {"domain", "infrastructure"}

\* The four caches of Bootstrap.
Caches == {"_domain_packages", "_infrastructure_packages", "_domain_modules",
           "_infrastructure_modules"}

NoQuery == [query |-> "none", path |-> "", layer |-> "", result |-> FALSE,
            cached |-> FALSE]

\* No file tree looked at, empty caches. A cache entry is "True", "False" or
\* "None": cache.get(packagePath, None).
NoMemo ==
    [version |-> "shared",
     tree |-> [p \in Paths |-> [l \in Layers |-> FALSE]],
     cache |-> [c \in Caches |-> [p \in Paths |-> "None"]],
     last |-> NoQuery]

NoSysPath == [path |-> <<>>, original |-> <<>>, fixed |-> FALSE]

\* No class in the pool, nothing enabled, nothing constructed.
BootIdle ==
    /\ pool = <<>>
    /\ boot = BootStart
    /\ singleton = NoSingleton
    /\ memo = NoMemo
    /\ sys_path = NoSysPath

\* What Ports.instance().resolve(EventEmitter) may return: no emitter, an
\* entry that is None, an emitter.
Emitters == {<<>>, <<None>>, <<1>>}

Init ==
    /\ emitters \in Emitters
    /\ DispatchIdle
    /\ primary_ports = <<>>
    /\ SchedulerIdle
    /\ BootIdle
    /\ suspended = NoSuspended

\* ---------------------------------------------------------------- actions
\* The record of the events produced, once a listener or maybe_trigger()
\* has returned new_events: an event is recorded when it is first produced.
RECURSIVE Produce(_, _)
Produce(record, new_events) ==
    IF new_events = <<>> THEN record
    ELSE Produce(IF \E n \in 1..Len(record) : record[n] = Head(new_events)
                 THEN record ELSE Append(record, Head(new_events)),
                 Tail(new_events))

\* An outer call of accept: result = [] and the first test of eventOrEvents.
accept_call(eventOrEvents) ==
    /\ stack = <<>>
    /\ size < MaxSize
    /\ stack' = <<NewFrame(eventOrEvents)>>
    /\ status' = "running"
    /\ known' = KnownAfter(known, eventOrEvents.items)
    /\ size' = size + 1 + Len(eventOrEvents.items)
    /\ input' = eventOrEvents.items
    /\ outcome' = <<>>
    /\ flagAtStart' = one_shot
    /\ flagChanged' = FALSE
    /\ lastDecision' = NoDecision
    /\ scheduled' = <<>>
    /\ produced' = <<>>
    /\ delivered' = <<>>
    /\ prev' = IF status = "returned"
               THEN [input |-> input, flag |-> flagAtStart, stable |-> ~flagChanged,
                     result |-> outcome]
               ELSE prev
    /\ UNCHANGED schedVars
    /\ UNCHANGED bootVars
    /\ UNCHANGED suspended
    /\ UNCHANGED <<one_shot, listeners, emitters, triggers, tasks>>

\* Faulty variant: the flag is read once, when the call is made.
FlagReadAtCall(f) == f.one_shot_at_call

\* self.one_shot, as the test before a listener reads it.
FlagRead(f) == one_shot

\* Faulty variant: one dedup record for all the calls in progress, the events
\* that the suspended call has produced are not merged again.
MergeResultingShared(first_events, resulting_events) ==
    extend_missing_items(first_events,
        SelectSeq(resulting_events,
                  LAMBDA item : item \notin Range(suspended.produced)))

\* if resulting_events and len(resulting_events) > 0:
\*     extend_missing_items(first_events, resulting_events)
MergeResulting(first_events, resulting_events) ==
    IF Len(resulting_events) > 0
    THEN extend_missing_items(first_events, resulting_events)
    ELSE first_events

\* Faulty variant: the self-triggered events are dropped.
MergeTriggeredDropped(first_events, triggered) == first_events

\* if len(triggered) > 0: extend_missing_items(first_events, triggered)
MergeTriggered(first_events, triggered) ==
    IF Len(triggered) > 0
    THEN extend_missing_items(first_events, triggered)
    ELSE first_events

\* Faulty variant: what the recursive calls returned comes first.
ReturnValueRecursionFirst(f) == extend_missing_items(f.aux, f.result)

\* Faulty variant: the events of the call are returned with what they produced.
ReturnValueWithEvents(f) == extend_missing_items(f.events, extend_missing_items(f.result, f.aux))

\* extend_missing_items(result, aux); return result
ReturnValue(f) == extend_missing_items(f.result, f.aux)

\* The end of the fan-out loops, lines 861-864: result takes first_events.
AfterEvent(f) ==
    IF f.i < Len(f.events)
    THEN [f EXCEPT !.i = f.i + 1, !.j = 1]
    ELSE [f EXCEPT !.i = f.i + 1, !.j = 1, !.pc = "recurse",
                   !.result = IF Len(f.first_events) > 0
                              THEN extend_missing_items(f.result, f.first_events)
                              ELSE f.result]

\* Faulty variant: the listener classes are taken last first.
ListenerLastFirst(ls, j) == Len(ls) + 1 - j

\* for listener_class in EventListener.listeners_for(event.__class__): pass j
\* of the loop takes item j of the list.
ListenerInTurn(ls, j) == j

\* One listener of the current event: the one-shot test, the call of
\* listener_class.accept(event), a task per resulting event, and the merge
\* into first_events.
accept_listener ==
    /\ stack # <<>>
    /\ Top.pc = "fanout"
    /\ LET f == Top
           event == f.events[f.i]
       IN \E ls \in Bound(TypeOf(event)) :
          /\ f.j <= Len(ls)
          /\ LET turn == ListenerInTurn(ls, f.j) IN
             \E kind \in (IF FlagRead(f) THEN KindOf(ls[turn].kind) ELSE {ls[turn].kind}) :
             LET bound == Len(ls) - Len(Given(listeners[TypeOf(event)]))
                 decision == [event |-> event, kind |-> kind, flag |-> one_shot,
                              start |-> f.one_shot_at_call, invoked |-> FALSE]
             IN IF ListenerEnabled(FlagRead(f), kind)
                   THEN \E resulting_events \in
                              (IF ls[turn].returns # Unset THEN {ls[turn].returns}
                               ELSE InOrderOfAppearance(known, MaxSize - size - bound)) :
                          /\ listeners' = [listeners EXCEPT ![TypeOf(event)] =
                                 [ls EXCEPT ![turn] = [kind |-> kind,
                                                      returns |-> resulting_events]]]
                          /\ known' = KnownAfter(known, resulting_events)
                          /\ size' = size + bound
                                 + (IF ls[turn].returns # Unset THEN 0
                                    ELSE Len(resulting_events))
                          /\ tasks' = tasks \o resulting_events
                          /\ scheduled' = scheduled \o resulting_events
                          /\ produced' = Produce(produced, resulting_events)
                          /\ stack' = SetTop([f EXCEPT
                                 !.j = f.j + 1,
                                 !.first_events =
                                     MergeResulting(f.first_events, resulting_events)])
                          /\ lastDecision' = [decision EXCEPT !.invoked = TRUE]
                   ELSE /\ lastDecision' = [decision EXCEPT !.invoked = FALSE]
                        /\ listeners' = [listeners EXCEPT ![TypeOf(event)] =
                                 [ls EXCEPT ![turn].kind = kind]]
                        /\ size' = size + bound
                        /\ stack' = SetTop([f EXCEPT !.j = f.j + 1])
                        /\ UNCHANGED <<known, tasks, scheduled, produced>>
    /\ UNCHANGED schedVars
    /\ UNCHANGED bootVars
    /\ UNCHANGED suspended
    /\ UNCHANGED <<one_shot, emitters, triggers, status, delivered, obsVars>>

\* After the listeners of the current event: event.maybe_trigger().
accept_trigger ==
    /\ stack # <<>>
    /\ Top.pc = "fanout"
    /\ LET f == Top
           event == f.events[f.i]
       IN \E ls \in Bound(TypeOf(event)) :
          LET bound == Len(ls) - Len(Given(listeners[TypeOf(event)]))
          IN
          /\ f.j > Len(ls)
          /\ listeners' = [listeners EXCEPT ![TypeOf(event)] = ls]
          /\ \E triggered \in
                 (IF triggers[event] # Unset THEN {triggers[event]}
                  ELSE InOrderOfAppearance(known, MaxSize - size - bound)) :
                /\ triggers' = [triggers EXCEPT ![event] = triggered]
                /\ known' = KnownAfter(known, triggered)
                /\ produced' = Produce(produced, triggered)
                /\ size' = size + bound
                       + (IF triggers[event] # Unset THEN 0 ELSE Len(triggered))
                /\ stack' = SetTop(AfterEvent([f EXCEPT
                       !.first_events = MergeTriggered(f.first_events, triggered)]))
    /\ UNCHANGED schedVars
    /\ UNCHANGED bootVars
    /\ UNCHANGED suspended
    /\ UNCHANGED <<one_shot, emitters, status, tasks, delivered, obsVars,
                   lastDecision, scheduled>>

\* Faulty variant: the emit tasks created are gathered before the recursion.
GatherEmitTasks == tasks = <<>>

\* await asyncio.gather(): nothing is gathered, nothing is waited for.
gather == TRUE

\* for evt in result: ... await self.accept(evt). The interpreter's recursion
\* limit ends the call chain with RecursionError, which nothing catches.
accept_recurse ==
    /\ stack # <<>>
    /\ Top.pc = "recurse"
    /\ gather
    /\ Top.k <= Len(Top.result)
    /\ IF Len(stack) < MaxDepth
       THEN /\ stack' = Append(stack, NewFrame(SingleEvent(Top.result[Top.k])))
            /\ UNCHANGED status
       ELSE /\ stack' = <<>>
            /\ status' = "RecursionError"
    /\ UNCHANGED schedVars
    /\ UNCHANGED bootVars
    /\ UNCHANGED suspended
    /\ UNCHANGED <<one_shot, listeners, emitters, triggers, tasks, delivered,
                   known, size, obsVars, lastDecision, scheduled, produced>>

\* extend_missing_items(result, aux); return result. In the caller:
\* extend_missing_items(aux, await self.accept(evt)).
accept_return ==
    /\ stack # <<>>
    /\ Top.pc = "recurse"
    /\ gather
    /\ Top.k > Len(Top.result)
    /\ LET result == ReturnValue(Top)
           n == Len(stack)
       IN IF n > 1
          THEN /\ stack' = [SubSeq(stack, 1, n - 1) EXCEPT
                                ![n - 1].aux = extend_missing_items(stack[n - 1].aux, result),
                                ![n - 1].k = stack[n - 1].k + 1]
               /\ UNCHANGED <<status, outcome>>
          ELSE /\ stack' = <<>>
               /\ status' = "returned"
               /\ outcome' = result
    /\ UNCHANGED schedVars
    /\ UNCHANGED bootVars
    /\ UNCHANGED suspended
    /\ UNCHANGED <<one_shot, listeners, emitters, triggers, tasks, delivered,
                   known, size, input, flagAtStart, flagChanged, prev,
                   lastDecision, scheduled, produced>>

\* Faulty variant: only the first emitter resolved is called.
EmitCallsFirstOnly(event) ==
    LET resolved == SelectSeq(emitters, LAMBDA event_emitter : event_emitter # None)
    IN IF resolved = <<>> THEN <<>> ELSE <<(<<resolved[1], event>>)>>

\* Faulty variant: emit is called on every entry resolved, None or not.
EmitCallsUnguarded(event) ==
    [n \in 1..Len(emitters) |-> <<emitters[n], event>>]

\* for event_emitter in event_emitters:
\*     if event_emitter is not None: await event_emitter.emit(event)
EmitCalls(event) ==
    LET resolved == SelectSeq(emitters, LAMBDA event_emitter : event_emitter # None)
    IN [n \in 1..Len(resolved) |-> <<resolved[n], event>>]

\* Faulty variant: a run of emit clears the one-shot flag.
EmitClearingFlag ==
    /\ tasks # <<>>
    /\ delivered' = delivered \o EmitCalls(Head(tasks))
    /\ tasks' = Tail(tasks)
    /\ one_shot' = FALSE
    /\ UNCHANGED schedVars
    /\ UNCHANGED bootVars
    /\ UNCHANGED suspended
    /\ UNCHANGED <<listeners, emitters, triggers, stack, status,
                   known, size, obsVars, lastDecision, scheduled, produced>>

emit ==
    /\ tasks # <<>>
    /\ delivered' = delivered \o EmitCalls(Head(tasks))
    /\ tasks' = Tail(tasks)
    /\ UNCHANGED schedVars
    /\ UNCHANGED bootVars
    /\ UNCHANGED suspended
    /\ UNCHANGED <<one_shot, listeners, emitters, triggers, stack, status,
                   known, size, obsVars, lastDecision, scheduled, produced>>

\* self.one_shot = flag
accept_one_shot(flag) ==
    /\ size < MaxSize
    /\ one_shot' = flag
    /\ flagChanged' = (flagChanged \/ (stack # <<>> /\ flag # one_shot))
    /\ size' = IF flag # one_shot THEN size + 1 ELSE size
    /\ UNCHANGED schedVars
    /\ UNCHANGED bootVars
    /\ UNCHANGED suspended
    /\ UNCHANGED <<listeners, emitters, triggers, stack, status, tasks,
                   delivered, known, input, outcome, flagAtStart, prev,
                   lastDecision, scheduled, produced>>

\* ------------------------------------------------ entry-point scheduler
\* The priorities a primary port class may declare.
Priorities == {1, 5}

\* A primary port class: whether it has the class methods default_priority
\* and priority, and what they return.
PortClasses(id) ==
    {[id |-> id, has_default_priority |-> FALSE, default_priority |-> None,
      has_priority |-> FALSE, priority |-> None]}
    \cup {[id |-> id, has_default_priority |-> TRUE, default_priority |-> d,
           has_priority |-> FALSE, priority |-> None] : d \in Priorities}
    \cup {[id |-> id, has_default_priority |-> FALSE, default_priority |-> None,
           has_priority |-> TRUE, priority |-> q] : q \in Priorities}
    \cup {[id |-> id, has_default_priority |-> TRUE, default_priority |-> d,
           has_priority |-> TRUE, priority |-> q] : d \in Priorities, q \in Priorities}

RECURSIVE PortLists(_)
\* The lists of n primary port classes, numbered in registration order.
PortLists(n) ==
    IF n = 0 THEN {<<>>}
    ELSE {Append(ports, port) : ports \in PortLists(n - 1), port \in PortClasses(n)}

\* Faulty variant: default_priority() is looked at last and wins.
DelegatePriorityDefaultWins(primaryPort) ==
    IF primaryPort.has_default_priority THEN primaryPort.default_priority
    ELSE IF primaryPort.has_priority THEN primaryPort.priority
    ELSE -1

\* result = -1; default_priority() if the class has it; priority() if it has.
delegate_priority(primaryPort) ==
    LET result0 == -1
        result1 == IF primaryPort.has_default_priority
                   THEN primaryPort.default_priority ELSE result0
        result2 == IF primaryPort.has_priority
                   THEN primaryPort.priority ELSE result1
    IN result2

\* Faulty variant: an item goes before the items of equal key.
InsertBeforeEqual(ports, port) ==
    LET before == SelectSeq(ports, LAMBDA x : delegate_priority(x) < delegate_priority(port))
        after == SelectSeq(ports, LAMBDA x : delegate_priority(x) >= delegate_priority(port))
    IN before \o <<port>> \o after

\* Where sorted() puts an item into a list already sorted: after the items
\* whose key is not greater, so that equal keys keep their order.
Insert(ports, port) ==
    LET before == SelectSeq(ports, LAMBDA x : delegate_priority(x) <= delegate_priority(port))
        after == SelectSeq(ports, LAMBDA x : delegate_priority(x) > delegate_priority(port))
    IN before \o <<port>> \o after

RECURSIVE sorted(_)
\* sorted(self.primary_ports, key=self.delegate_priority): ascending, stable.
sorted(ports) ==
    IF ports = <<>> THEN <<>>
    ELSE Insert(sorted(SubSeq(ports, 1, Len(ports) - 1)), ports[Len(ports)])

\* How a primary port class can be instantiated: its constructor takes no
\* argument, or it does and the class has instance(), or neither.
Constructions == {"default_constructor", "instance_method", "none"}

\* What is read of a primary port class: fixed once read.
ConstructionOf(id) ==
    IF port_facts[id].construction # "unread" THEN {port_facts[id].construction}
    ELSE Constructions

\* primary_port.is_one_shot_compatible: fixed once read.
CompatibleOf(id) ==
    IF port_facts[id].compatible # "unread" THEN {port_facts[id].compatible}
    ELSE {"yes", "no"}

\* return primaryPort()
get_primary_port_instance(primaryPort) == [class |-> primaryPort]

\* primaryPort() returns when the constructor takes no argument, and raises
\* TypeError otherwise.
Constructs(construction) == construction = "default_constructor"

\* The application after __init__ and initialize: the primary ports found.
\* A scheduler scenario has room for one write of the one-shot flag.
InitInput ==
    /\ emitters = <<>>
    /\ one_shot = FALSE
    /\ listeners = [t \in Types |-> Unbound]
    /\ triggers = [e \in Events |-> Unset]
    /\ stack = <<>>
    /\ status = "idle"
    /\ tasks = <<>>
    /\ delivered = <<>>
    /\ known = 0
    /\ size = MaxSize - 1
    /\ input = <<>>
    /\ outcome = <<>>
    /\ flagAtStart = FALSE
    /\ flagChanged = FALSE
    /\ lastDecision = NoDecision
    /\ scheduled = <<>>
    /\ produced = <<>>
    /\ prev = NoCall
    /\ primary_ports \in UNION {PortLists(n) : n \in 0..MaxPorts}
    /\ SchedulerIdle
    /\ BootIdle
    /\ suspended = NoSuspended

\* primary_ports = sorted(...); primary_port_instances = []
accept_input_call ==
    /\ input_pc = "idle"
    /\ sorted_primary_ports' = sorted(primary_ports)
    /\ primary_port_instances' = <<>>
    /\ input_pc' = "configure"
    /\ UNCHANGED <<primary_ports, configured, entered, port_facts, in_progress,
                   raised, next_port>>
    /\ UNCHANGED dispatchVars
    /\ UNCHANGED bootVars
    /\ UNCHANGED suspended

\* One turn of the first loop: the port is instantiated, kept, configured.
\* An exception of primaryPort() leaves accept_input.
accept_input_configure ==
    /\ input_pc = "configure"
    /\ Len(primary_port_instances) < Len(sorted_primary_ports)
    /\ LET primary_port == sorted_primary_ports[Len(primary_port_instances) + 1]
           port == get_primary_port_instance(primary_port)
       IN \E construction \in ConstructionOf(primary_port.id) :
            /\ port_facts' = [port_facts EXCEPT
                                 ![primary_port.id].construction = construction]
            /\ IF Constructs(construction)
               THEN /\ primary_port_instances' = Append(primary_port_instances, port)
                    /\ configured' = Append(configured, port)
                    /\ UNCHANGED <<input_pc, raised>>
               ELSE /\ input_pc' = "raised"
                    /\ raised' = "constructor"
                    /\ UNCHANGED <<primary_port_instances, configured>>
    /\ UNCHANGED <<primary_ports, sorted_primary_ports, entered, in_progress,
                   next_port>>
    /\ UNCHANGED dispatchVars
    /\ UNCHANGED bootVars
    /\ UNCHANGED suspended

\* Faulty variant: the entrypoint calls are started without being awaited.
EntrypointNotAwaited == TRUE

\* await primary_port_instance.entrypoint(self): the loop goes on when the
\* call has returned.
EntrypointAwaited == in_progress = <<>>

\* Faulty variant: one loop, the entrypoint of a port is called as soon as
\* the port is configured.
FirstLoopOverlapped == TRUE

\* The second loop starts when the first one has ended: every port of
\* primary_ports is instantiated and its configure() has returned.
FirstLoopDone == Len(primary_port_instances) = Len(sorted_primary_ports)

\* One turn of the second loop, to the call of entrypoint(self). The entry
\* records the port, one_shot at the call and the port's
\* is_one_shot_compatible.
accept_input_entrypoint ==
    /\ input_pc = "configure"
    /\ FirstLoopDone
    /\ Len(entered) < Len(primary_port_instances)
    /\ EntrypointAwaited
    /\ LET primary_port_instance == primary_port_instances[Len(entered) + 1]
           id == primary_port_instance.class.id
       IN \E compatible \in CompatibleOf(id) :
            /\ port_facts' = [port_facts EXCEPT ![id].compatible = compatible]
            /\ entered' = Append(entered, [class |-> primary_port_instance.class,
                                           one_shot |-> one_shot,
                                           compatible |-> compatible])
            /\ in_progress' = Append(in_progress, id)
    /\ UNCHANGED <<primary_ports, sorted_primary_ports, primary_port_instances,
                   configured, input_pc, raised, next_port>>
    /\ UNCHANGED dispatchVars
    /\ UNCHANGED bootVars
    /\ UNCHANGED suspended

\* Faulty variant: an exception of entrypoint is caught and the loop goes on.
AfterEntrypointCaught(ending) == "configure"

\* Nothing catches an exception of entrypoint: it leaves accept_input.
AfterEntrypoint(ending) == IF ending = "raises" THEN "raised" ELSE "configure"

\* The entrypoint call in progress returns, or raises.
accept_input_entrypoint_done ==
    /\ input_pc = "configure"
    /\ in_progress # <<>>
    /\ \E ending \in {"returns", "raises"} :
         /\ input_pc' = AfterEntrypoint(ending)
         /\ raised' = IF ending = "raises" THEN "entrypoint" ELSE raised
    /\ in_progress' = SubSeq(in_progress, 1, Len(in_progress) - 1)
    /\ UNCHANGED <<primary_ports, sorted_primary_ports, primary_port_instances,
                   configured, entered, port_facts, next_port>>
    /\ UNCHANGED dispatchVars
    /\ UNCHANGED bootVars
    /\ UNCHANGED suspended

\* accept_input returns.
accept_input_return ==
    /\ input_pc = "configure"
    /\ Len(primary_port_instances) = Len(sorted_primary_ports)
    /\ Len(entered) = Len(primary_port_instances)
    /\ EntrypointAwaited
    /\ input_pc' = "done"
    /\ UNCHANGED <<primary_ports, sorted_primary_ports, primary_port_instances,
                   configured, entered, port_facts, in_progress, raised, next_port>>
    /\ UNCHANGED dispatchVars
    /\ UNCHANGED bootVars
    /\ UNCHANGED suspended

\* -------------------------------- accept_input of pythoneda.application
\* The earlier PythonEDA class: its get_primary_port_instance calls
\* primaryPort() if has_default_constructor, else primaryPort.instance() if
\* has_instance_method, and returns None otherwise.
legacy_instantiable(construction) == construction # "none"

\* result = -1; default_priority() if the class has it; priority() of an
\* instance if the class has priority and an instance can be had.
legacy_delegate_priority(primaryPort, construction) ==
    LET result0 == -1
        result1 == IF primaryPort.has_default_priority
                   THEN primaryPort.default_priority ELSE result0
        result2 == IF primaryPort.has_priority /\ legacy_instantiable(construction)
                   THEN primaryPort.priority ELSE result1
    IN result2

legacy_Insert(ports, port, constructions) ==
    LET key(x) == legacy_delegate_priority(x, constructions[x.id])
        before == SelectSeq(ports, LAMBDA x : key(x) <= key(port))
        after == SelectSeq(ports, LAMBDA x : key(x) > key(port))
    IN before \o <<port>> \o after

RECURSIVE legacy_sorted(_, _)
\* sorted(self.primary_ports, key=self.__class__.delegate_priority)
legacy_sorted(ports, constructions) ==
    IF ports = <<>> THEN <<>>
    ELSE legacy_Insert(legacy_sorted(SubSeq(ports, 1, Len(ports) - 1), constructions),
                       ports[Len(ports)], constructions)

\* What delegate_priority reads while sorting: how to instantiate the classes
\* that have priority.
ConstructionsRead(ports) ==
    {constructions \in [1..MaxPorts -> Constructions \cup {"unread"}] :
        \A id \in 1..MaxPorts :
            IF \E n \in 1..Len(ports) : ports[n].id = id /\ ports[n].has_priority
            THEN constructions[id] \in ConstructionOf(id)
            ELSE constructions[id] = port_facts[id].construction}

\* for primary_port in sorted(...)
legacy_accept_input_call ==
    /\ input_pc = "idle"
    /\ \E constructions \in ConstructionsRead(primary_ports) :
         /\ port_facts' = [id \in 1..MaxPorts |->
                              [port_facts[id] EXCEPT !.construction = constructions[id]]]
         /\ sorted_primary_ports' = legacy_sorted(primary_ports, constructions)
    /\ next_port' = 1
    /\ input_pc' = "legacy_loop"
    /\ UNCHANGED <<primary_ports, primary_port_instances, configured, entered,
                   in_progress, raised>>
    /\ UNCHANGED dispatchVars
    /\ UNCHANGED bootVars
    /\ UNCHANGED suspended

\* One turn of the loop: the one-shot test, the instance, and the call of
\* port.accept(self) when there is an instance.
legacy_accept_input_port ==
    /\ input_pc = "legacy_loop"
    /\ next_port <= Len(sorted_primary_ports)
    /\ in_progress = <<>>
    /\ LET primary_port == sorted_primary_ports[next_port]
           id == primary_port.id
       IN \E compatible \in CompatibleOf(id) :
            IF ~one_shot \/ compatible = "yes"
            THEN \E construction \in ConstructionOf(id) :
                   /\ port_facts' = [port_facts EXCEPT
                          ![id] = [construction |-> construction,
                                   compatible |-> compatible]]
                   /\ IF legacy_instantiable(construction)
                      THEN /\ entered' = Append(entered,
                                  [class |-> primary_port, one_shot |-> one_shot,
                                   compatible |-> compatible])
                           /\ in_progress' = <<id>>
                      ELSE UNCHANGED <<entered, in_progress>>
            ELSE /\ port_facts' = [port_facts EXCEPT ![id].compatible = compatible]
                 /\ UNCHANGED <<entered, in_progress>>
    /\ next_port' = next_port + 1
    /\ UNCHANGED <<primary_ports, sorted_primary_ports, primary_port_instances,
                   configured, input_pc, raised>>
    /\ UNCHANGED dispatchVars
    /\ UNCHANGED bootVars
    /\ UNCHANGED suspended

\* port.accept(self) returns, or raises: nothing catches the exception.
legacy_accept_input_port_done ==
    /\ input_pc = "legacy_loop"
    /\ in_progress # <<>>
    /\ \E ending \in {"returns", "raises"} :
         /\ input_pc' = IF ending = "raises" THEN "legacy_raised" ELSE "legacy_loop"
         /\ raised' = IF ending = "raises" THEN "entrypoint" ELSE raised
    /\ in_progress' = <<>>
    /\ UNCHANGED <<primary_ports, sorted_primary_ports, primary_port_instances,
                   configured, entered, port_facts, next_port>>
    /\ UNCHANGED dispatchVars
    /\ UNCHANGED bootVars
    /\ UNCHANGED suspended

\* accept_input returns.
legacy_accept_input_return ==
    /\ input_pc = "legacy_loop"
    /\ next_port > Len(sorted_primary_ports)
    /\ in_progress = <<>>
    /\ input_pc' = "legacy_done"
    /\ UNCHANGED <<primary_ports, sorted_primary_ports, primary_port_instances,
                   configured, entered, port_facts, in_progress, raised, next_port>>
    /\ UNCHANGED dispatchVars
    /\ UNCHANGED bootVars
    /\ UNCHANGED suspended

NextInput ==
    \/ accept_input_call
    \/ accept_input_configure
    \/ accept_input_entrypoint
    \/ accept_input_entrypoint_done
    \/ accept_input_return
    \/ legacy_accept_input_call
    \/ legacy_accept_input_port
    \/ legacy_accept_input_port_done
    \/ legacy_accept_input_return
    \/ \E flag \in BOOLEAN : accept_one_shot(flag)

SpecInput == InitInput /\ [][NextInput]_vars

\* -------------------------------------------------------- event dispatch
Next ==
    \/ \E eventOrEvents \in Inputs : accept_call(eventOrEvents)
    \/ accept_listener
    \/ accept_trigger
    \/ accept_recurse
    \/ accept_return
    \/ emit
    \/ \E flag \in BOOLEAN : accept_one_shot(flag)

Spec == Init /\ [][Next]_vars

\* Faulty variant: the exception of a listener is caught where it is raised,
\* and the loop goes on with the next listener.
StackAfterRaiseCaught(frames) ==
    [frames EXCEPT ![Len(frames)].j = frames[Len(frames)].j + 1]

\* No try in accept: the exception of a listener leaves the call and, through
\* each `await self.accept(evt)`, every call around it.
StackAfterRaise(frames) == <<>>

\* Faulty variant: the exception cancels the emit tasks created so far.
TasksAfterRaiseCancelled(created) == <<>>

\* Nothing in accept cancels a task: the tasks created stay with the loop.
TasksAfterRaise(created) == created

\* One listener of the current event whose accept(event) raises.
accept_listener_raise ==
    /\ stack # <<>>
    /\ Top.pc = "fanout"
    /\ LET f == Top
           event == f.events[f.i]
       IN \E ls \in Bound(TypeOf(event)) :
          /\ f.j <= Len(ls)
          /\ LET turn == ListenerInTurn(ls, f.j) IN
             \E kind \in (IF FlagRead(f) THEN KindOf(ls[turn].kind) ELSE {ls[turn].kind}) :
                /\ ListenerEnabled(FlagRead(f), kind)
                /\ listeners' = [listeners EXCEPT ![TypeOf(event)] =
                                     [ls EXCEPT ![turn].kind = kind]]
                /\ size' = size + Len(ls) - Len(Given(listeners[TypeOf(event)]))
                /\ lastDecision' = [event |-> event, kind |-> kind, flag |-> one_shot,
                                    start |-> f.one_shot_at_call, invoked |-> TRUE]
    /\ stack' = StackAfterRaise(stack)
    /\ tasks' = TasksAfterRaise(tasks)
    /\ status' = "raised"
    /\ UNCHANGED schedVars
    /\ UNCHANGED bootVars
    /\ UNCHANGED suspended
    /\ UNCHANGED <<one_shot, emitters, triggers, delivered, known, obsVars,
                   scheduled, produced>>

NextRaise ==
    \/ Next
    \/ accept_listener_raise

SpecRaise == Init /\ [][NextRaise]_vars

\* What Ports.instance().resolve(EventEmitter) may return when up to two
\* entries are resolved, each an emitter or None.
EmittersResolved ==
    {<<>>} \cup {<<a>> : a \in {None, 1, 2}}
           \cup {<<a, b>> : a \in {None, 1, 2}, b \in {None, 1, 2}}

\* The application after __init__, with any of these resolutions; the entries
\* resolved take two of the scenario's size whatever their number.
InitEmit ==
    /\ emitters \in EmittersResolved
    /\ one_shot = FALSE
    /\ listeners = [t \in Types |-> Unbound]
    /\ triggers = [e \in Events |-> Unset]
    /\ stack = <<>>
    /\ status = "idle"
    /\ tasks = <<>>
    /\ delivered = <<>>
    /\ known = 0
    /\ size = 2
    /\ input = <<>>
    /\ outcome = <<>>
    /\ flagAtStart = FALSE
    /\ flagChanged = FALSE
    /\ lastDecision = NoDecision
    /\ scheduled = <<>>
    /\ produced = <<>>
    /\ prev = NoCall
    /\ primary_ports = <<>>
    /\ SchedulerIdle
    /\ BootIdle
    /\ suspended = NoSuspended

\* A run of emit in which event_emitter.emit(event) raises before the last
\* emitter: the exception ends the task, which nothing awaits, and the
\* emitters after the one that raised are not called.
emit_raise ==
    /\ tasks # <<>>
    /\ \E n \in 1..(Len(EmitCalls(Head(tasks))) - 1) :
          delivered' = delivered \o SubSeq(EmitCalls(Head(tasks)), 1, n)
    /\ tasks' = Tail(tasks)
    /\ UNCHANGED schedVars
    /\ UNCHANGED bootVars
    /\ UNCHANGED suspended
    /\ UNCHANGED <<one_shot, listeners, emitters, triggers, stack, status,
                   known, size, obsVars, lastDecision, scheduled, produced>>

NextEmit ==
    \/ Next
    \/ emit_raise

SpecEmit == InitEmit /\ [][NextEmit]_vars

\* ------------------------------------- accept of pythoneda.application
\* The earlier PythonEDA class (pythoneda/application/pythoneda.py), called
\* with the bindings the calls above have looked up. Its accept takes one
\* event; its frame uses events, j, first_events, result and k.
LegacyFrame(event) ==
    [NewFrame(SingleEvent(event)) EXCEPT !.pc = "legacy_fanout"]

\* Ports.instance().resolve(EventEmitter): one emitter, or None.
LegacyResolve == IF emitters = <<>> THEN None ELSE emitters[1]

\* An outer call of accept: result = []; if event: first_events = [].
legacy_accept_call(event) ==
    /\ stack = <<>>
    /\ size + 2 <= MaxSize
    /\ event <= known + 1
    /\ stack' = <<LegacyFrame(event)>>
    /\ status' = "running"
    /\ known' = KnownAfter(known, <<event>>)
    /\ size' = size + 2
    /\ input' = <<event>>
    /\ outcome' = <<>>
    /\ flagAtStart' = one_shot
    /\ flagChanged' = FALSE
    /\ lastDecision' = NoDecision
    /\ scheduled' = <<>>
    /\ produced' = <<>>
    /\ delivered' = <<>>
    /\ prev' = IF status = "returned"
               THEN [input |-> input, flag |-> flagAtStart, stable |-> ~flagChanged,
                     result |-> outcome]
               ELSE prev
    /\ UNCHANGED schedVars
    /\ UNCHANGED bootVars
    /\ UNCHANGED suspended
    /\ UNCHANGED <<one_shot, listeners, emitters, triggers, tasks>>

\* One listener of the event: the one-shot test, the call of
\* listener_class.accept(event) and the merge into first_events.
legacy_accept_listener ==
    /\ stack # <<>>
    /\ Top.pc = "legacy_fanout"
    /\ LET f == Top
           event == f.events[1]
       IN \E ls \in Bound(TypeOf(event)) :
          /\ f.j <= Len(ls)
          /\ \E kind \in (IF one_shot THEN KindOf(ls[f.j].kind) ELSE {ls[f.j].kind}) :
             LET bound == Len(ls) - Len(Given(listeners[TypeOf(event)]))
                 decision == [event |-> event, kind |-> kind, flag |-> one_shot,
                              start |-> f.one_shot_at_call, invoked |-> FALSE]
             IN IF ListenerEnabled(one_shot, kind)
                   THEN \E resulting_events \in
                              (IF ls[f.j].returns # Unset THEN {ls[f.j].returns}
                               ELSE InOrderOfAppearance(known, MaxSize - size - bound)) :
                          /\ listeners' = [listeners EXCEPT ![TypeOf(event)] =
                                 [ls EXCEPT ![f.j] = [kind |-> kind,
                                                      returns |-> resulting_events]]]
                          /\ known' = KnownAfter(known, resulting_events)
                          /\ produced' = Produce(produced, resulting_events)
                          /\ size' = size + bound
                                 + (IF ls[f.j].returns # Unset THEN 0
                                    ELSE Len(resulting_events))
                          /\ stack' = SetTop([f EXCEPT
                                 !.j = f.j + 1,
                                 !.first_events =
                                     MergeResulting(f.first_events, resulting_events)])
                          /\ lastDecision' = [decision EXCEPT !.invoked = TRUE]
                   ELSE /\ lastDecision' = [decision EXCEPT !.invoked = FALSE]
                        /\ listeners' = [listeners EXCEPT ![TypeOf(event)] =
                                 [ls EXCEPT ![f.j].kind = kind]]
                        /\ size' = size + bound
                        /\ stack' = SetTop([f EXCEPT !.j = f.j + 1])
                        /\ UNCHANGED <<known, produced>>
    /\ UNCHANGED schedVars
    /\ UNCHANGED bootVars
    /\ UNCHANGED suspended
    /\ UNCHANGED <<one_shot, emitters, triggers, status, tasks, delivered, obsVars,
                   scheduled>>

\* After the listeners: result takes first_events, and the events of result
\* are emitted unless one_shot is set.
legacy_accept_merge ==
    /\ stack # <<>>
    /\ Top.pc = "legacy_fanout"
    /\ LET f == Top
           event == f.events[1]
       IN \E ls \in Bound(TypeOf(event)) :
          /\ f.j > Len(ls)
          /\ listeners' = [listeners EXCEPT ![TypeOf(event)] = ls]
          /\ size' = size + (Len(ls) - Len(Given(listeners[TypeOf(event)])))
          /\ stack' = SetTop([f EXCEPT
                 !.result = IF Len(f.first_events) > 0
                            THEN extend_missing_items(f.result, f.first_events)
                            ELSE f.result,
                 !.pc = IF ~one_shot THEN "legacy_emit" ELSE "legacy_return"])
    /\ UNCHANGED schedVars
    /\ UNCHANGED bootVars
    /\ UNCHANGED suspended
    /\ UNCHANGED <<one_shot, emitters, triggers, status, tasks, delivered, known,
                   obsVars, lastDecision, scheduled, produced>>

\* for evt in result: await self.emit(evt), the emitter called unless None.
legacy_accept_emit ==
    /\ stack # <<>>
    /\ Top.pc = "legacy_emit"
    /\ Top.k <= Len(Top.result)
    /\ delivered' = IF LegacyResolve # None
                    THEN Append(delivered, <<LegacyResolve, Top.result[Top.k]>>)
                    ELSE delivered
    /\ stack' = SetTop([Top EXCEPT !.k = Top.k + 1])
    /\ UNCHANGED schedVars
    /\ UNCHANGED bootVars
    /\ UNCHANGED suspended
    /\ UNCHANGED <<one_shot, listeners, emitters, triggers, status, tasks, known,
                   size, obsVars, lastDecision, scheduled, produced>>

\* return result
legacy_accept_return ==
    /\ stack # <<>>
    /\ \/ Top.pc = "legacy_return"
       \/ Top.pc = "legacy_emit" /\ Top.k > Len(Top.result)
    /\ outcome' = Top.result
    /\ status' = "returned"
    /\ stack' = <<>>
    /\ UNCHANGED schedVars
    /\ UNCHANGED bootVars
    /\ UNCHANGED suspended
    /\ UNCHANGED <<one_shot, listeners, emitters, triggers, tasks, delivered,
                   known, size, input, flagAtStart, flagChanged, prev,
                   lastDecision, scheduled, produced>>

NextLegacy ==
    \/ \E eventOrEvents \in Inputs : accept_call(eventOrEvents)
    \/ accept_listener
    \/ accept_trigger
    \/ accept_recurse
    \/ accept_return
    \/ emit
    \/ \E flag \in BOOLEAN : accept_one_shot(flag)
    \/ \E event \in Events : legacy_accept_call(event)
    \/ legacy_accept_listener
    \/ legacy_accept_merge
    \/ legacy_accept_emit
    \/ legacy_accept_return

SpecLegacy == Init /\ [][NextLegacy]_vars

\* ------------------------------------------ two outer calls of accept
\* The event loop leaves the running call of accept where it awaits a
\* listener or maybe_trigger(), or when it is over, and runs the other one:
\* the call that was suspended, or the caller, which may make a second call.
switch ==
    /\ IF stack = <<>> THEN suspended.stack # <<>>
       ELSE /\ Top.pc = "fanout"
            /\ suspended.stack # <<>> \/ suspended.status = "idle"
    /\ stack' = suspended.stack
    /\ status' = suspended.status
    /\ input' = suspended.input
    /\ outcome' = suspended.outcome
    /\ flagAtStart' = suspended.flagAtStart
    /\ flagChanged' = suspended.flagChanged
    /\ lastDecision' = suspended.lastDecision
    /\ scheduled' = suspended.scheduled
    /\ produced' = suspended.produced
    /\ suspended' =
           [stack |-> stack, status |-> status, input |-> input,
            outcome |-> outcome, flagAtStart |-> flagAtStart,
            flagChanged |-> flagChanged, lastDecision |-> lastDecision,
            scheduled |-> scheduled, produced |-> produced,
            overlapped |-> suspended.overlapped
                           \/ (stack # <<>> /\ suspended.stack # <<>>)]
    /\ UNCHANGED <<one_shot, listeners, triggers, emitters, tasks, delivered,
                   known, size, prev>>
    /\ UNCHANGED schedVars
    /\ UNCHANGED bootVars

InitConcurrent ==
    /\ emitters = <<>>
    /\ DispatchIdle
    /\ primary_ports = <<>>
    /\ SchedulerIdle
    /\ BootIdle
    /\ suspended = NoSuspended

\* The flag is not written: accept_one_shot is no step of these runs.
NextConcurrent ==
    \/ \E eventOrEvents \in Inputs : accept_call(eventOrEvents)
    \/ accept_listener
    \/ accept_trigger
    \/ accept_recurse
    \/ accept_return
    \/ switch

SpecConcurrent == InitConcurrent /\ [][NextConcurrent]_vars

\* ------------------------------------------- enable, initialize, adapters
\* inst in result
Contains(result, inst) == \E n \in 1..Len(result) : result[n] = inst

\* inspect.getmembers(module, inspect.isclass): the classes of the module,
\* sorted by name.
RECURSIVE getmembers(_, _)
getmembers(module, c) ==
    IF c > MaxAdapters THEN <<>>
    ELSE (IF pool[c].module = module \/ pool[c].imported THEN <<c>> ELSE <<>>)
         \o getmembers(module, c + 1)

\* Faulty variant: the interface itself passes.
IsSubclass(inst, interface) ==
    /\ pool[inst].implements = interface
    /\ ~pool[inst].abstract

\* issubclass(inst, interface) and inst != interface
\* and abc.ABC not in inst.__bases__
IsAdapter(inst, interface) ==
    /\ pool[inst].implements = interface
    /\ ~pool[inst].itself
    /\ ~pool[inst].abstract

\* The inner loop of get_adapters over the members of one module.
RECURSIVE AdaptersOfModule(_, _, _)
AdaptersOfModule(result, members, interface) ==
    IF members = <<>> THEN result
    ELSE LET inst == Head(members)
         IN  AdaptersOfModule(
                 IF IsAdapter(inst, interface) /\ ~Contains(result, inst)
                 THEN Append(result, inst) ELSE result,
                 Tail(members), interface)

\* The outer loop of get_adapters over the modules.
RECURSIVE AdaptersOfModules(_, _, _)
AdaptersOfModules(result, modules, interface) ==
    IF modules = <<>> THEN result
    ELSE AdaptersOfModules(
             AdaptersOfModule(result, getmembers(Head(modules), 1), interface),
             Tail(modules), interface)

\* Faulty variant: the result list outlives the call, the next call goes on
\* from it.
GetAdaptersKeepingResult(interface, modules) ==
    AdaptersOfModules(boot.last_resolved.result, modules, interface)

\* Bootstrap.get_adapters: result = [] ... return result
get_adapters(interface, modules) ==
    AdaptersOfModules(<<>>, modules, interface)

\* A call of Bootstrap.instance().get_adapters(interface, modules) with the
\* enabled modules, as initialize makes it.
get_adapters_call(interface) ==
    /\ ~boot.initialized
    /\ LET result == get_adapters(interface, boot.enabled_infrastructure_modules)
       IN  boot' = [boot EXCEPT
                        !.first_resolved[interface] =
                            IF @ = Unset THEN result ELSE @,
                        !.last_resolved =
                            [interface |-> interface, result |-> result,
                             repeated |-> boot.first_resolved[interface] # Unset]]
    /\ UNCHANGED <<pool, singleton, memo, sys_path>>
    /\ UNCHANGED suspended
    /\ UNCHANGED dispatchVars
    /\ UNCHANGED schedVars

\* module not in PythonEDA.enabled_infrastructure_modules
NotYetEnabled(c) ==
    ~Contains(boot.enabled_infrastructure_modules, pool[c].module)

\* @enable(AdapterCls, *args, **kwargs) applied to a class.
enable_class(c, args) ==
    /\ ~boot.initialized
    /\ Len(boot.applied) < MaxAdapters
    /\ boot' = [boot EXCEPT
                   !.applied = Append(@, [adapter |-> c, args |-> args]),
                   !.enable_calls =
                       IF NotYetEnabled(c) THEN Append(@, <<c, args>>) ELSE @,
                   !.enabled_infrastructure_modules =
                       IF NotYetEnabled(c) THEN Append(@, pool[c].module)
                       ELSE @]
    /\ UNCHANGED <<pool, singleton, memo, sys_path>>
    /\ UNCHANGED suspended
    /\ UNCHANGED dispatchVars
    /\ UNCHANGED schedVars

\* @enable(adapterInstance) applied to a class.
enable_instance(c) ==
    /\ ~boot.initialized
    /\ Len(boot.applied) < MaxAdapters
    /\ boot' = [boot EXCEPT
                   !.applied = Append(@, [adapter |-> Instance(c), args |-> 0]),
                   !.enabled_infrastructure_adapters = Append(@, Instance(c))]
    /\ UNCHANGED <<pool, singleton, memo, sys_path>>
    /\ UNCHANGED suspended
    /\ UNCHANGED dispatchVars
    /\ UNCHANGED schedVars

\* for adapter in PythonEDA.enabled_infrastructure_adapters:
\*     if isinstance(adapter, port): implementations.append(adapter)
RECURSIVE InstancesOf(_, _)
InstancesOf(adapters, port) ==
    IF adapters = <<>> THEN <<>>
    ELSE (IF pool[0 - Head(adapters)].implements = port
          THEN <<Head(adapters)>> ELSE <<>>)
         \o InstancesOf(Tail(adapters), port)

\* Faulty variant: no port is exempt from the warning.
ExemptNone(port) == FALSE

\* str(port.__module__) in ["pythoneda.shared.repo",
\* "pythoneda.shared.event_emitter",
\* "pythoneda.shared.artifact.artifact_repository"]
Exempt(port) == port \in {"repo", "event_emitter", "artifact_repository"}

\* str(port.__module__) in ["pythoneda.repo", "pythoneda.event_emitter"]
LegacyExempt(port) == port \in {"repo", "event_emitter"}

Warning(level, port) ==
    [level |-> level, text |-> "[Warning] No implementations found",
     port |-> port]

Message(level, text) == [level |-> level, text |-> text, port |-> ""]

\* log_debug, log_info, log_error of pythoneda.shared.application: to the
\* logger once logging is configured, to _pending_logging before. `logged`
\* keeps every message passed, in order.
log_message(b, message) ==
    IF b.logging_configured
    THEN [b EXCEPT !.logged = Append(@, message), !.logger = Append(@, message)]
    ELSE [b EXCEPT !.logged = Append(@, message),
                   !.pending_logging = Append(@, message)]

\* log_info, log_error of pythoneda.application: written at once, to the
\* logger or to the standard streams; nothing is kept pending.
legacy_log_message(b, message) ==
    [b EXCEPT !.logged = Append(@, message)]

\* The loop of initialize over self.domain_ports, from position n on: b is
\* the startup so far, modules the list get_adapters inspects.
RECURSIVE MapPorts(_, _, _)
MapPorts(b, modules, n) ==
    IF n > Len(domain_ports) THEN b
    ELSE LET port == domain_ports[n]
             implementations ==
                 get_adapters(port, modules)
                 \o InstancesOf(b.enabled_infrastructure_adapters, port)
         IN  MapPorts(
                 IF Len(implementations) = 0
                 THEN IF ~Exempt(port)
                      THEN log_message(b, Warning("info", port))
                      ELSE b
                 ELSE [b EXCEPT !.mappings[port] = implementations],
                 modules, n + 1)

\* PythonEDA.initialize of pythoneda.shared.application
initialize ==
    /\ ~boot.initialized
    /\ IF Len(boot.enabled_infrastructure_modules) = 0
       THEN boot' = [log_message(boot,
                         Message("error", "No infrastructure modules enabled!"))
                     EXCEPT !.initialized = TRUE]
       ELSE LET modules == boot.enabled_infrastructure_modules \o LoggingModules
                primary == get_adapters("PrimaryPort", modules)
                enabled == log_message(
                               [boot EXCEPT
                                   !.enabled_infrastructure_modules = modules],
                               Message("debug", "Enabled infrastructure modules"))
                mapped == MapPorts(
                              log_message(
                                  [enabled EXCEPT
                                      !.mappings["PrimaryPort"] = primary],
                                  Message("debug", "Domain ports")),
                              modules, 1)
                ready == log_message(
                             mapped,
                             Message("debug", "Initializing ports with mappings"))
            IN  boot' = [ready EXCEPT
                            !.initialized = TRUE,
                            !.ports_initialized = TRUE,
                            !.logging_configured = TRUE,
                            !.logger = @ \o ready.pending_logging]
    /\ UNCHANGED <<pool, singleton, memo, sys_path>>
    /\ UNCHANGED suspended
    /\ UNCHANGED dispatchVars
    /\ UNCHANGED schedVars

\* The loop of the earlier initialize over self.domain_ports.
RECURSIVE LegacyMapPorts(_, _, _)
LegacyMapPorts(b, modules, n) ==
    IF n > Len(legacy_domain_ports) THEN b
    ELSE LET port == legacy_domain_ports[n]
             implementations == get_adapters(port, modules)
             warned ==
                 IF Len(implementations) = 0 /\ ~LegacyExempt(port)
                 THEN legacy_log_message(b, Warning("error", port))
                 ELSE b
         IN  LegacyMapPorts(
                 [warned EXCEPT !.mappings[port] = implementations],
                 modules, n + 1)

\* PythonEDA.initialize of pythoneda.application: the infrastructure modules
\* are the ones found on the path, no decorator enables them.
legacy_initialize(infrastructure_modules) ==
    /\ ~boot.initialized
    /\ boot.applied = <<>>
    /\ IF Len(infrastructure_modules) = 0
       THEN boot' = [legacy_log_message(boot,
                         Message("error", "No infrastructure modules detected!"))
                     EXCEPT !.initialized = TRUE]
       ELSE LET mapped == LegacyMapPorts(boot, infrastructure_modules, 1)
            IN  boot' = [mapped EXCEPT
                            !.initialized = TRUE,
                            !.ports_initialized = TRUE,
                            !.mappings["PrimaryPort"] =
                                get_adapters("PrimaryPort",
                                             infrastructure_modules)]
    /\ UNCHANGED <<pool, singleton, memo, sys_path>>
    /\ UNCHANGED suspended
    /\ UNCHANGED dispatchVars
    /\ UNCHANGED schedVars

\* The lists of modules a scenario may start from.
ModuleLists == {<<>>, <<1>>, <<2>>, <<1, 2>>, <<2, 1>>}

InitStartup ==
    /\ emitters = <<>>
    /\ DispatchIdle
    /\ primary_ports = <<>>
    /\ SchedulerIdle
    /\ suspended = NoSuspended
    /\ pool \in [1..MaxAdapters -> StartupClasses]
    /\ boot = BootStart
    /\ singleton = NoSingleton
    /\ memo = NoMemo
    /\ sys_path = NoSysPath

NextStartup ==
    \/ \E c \in 1..MaxAdapters : \E args \in EnableArgs : enable_class(c, args)
    \/ \E c \in 1..MaxAdapters : enable_instance(c)
    \/ initialize
    \/ \E infrastructure_modules \in ModuleLists :
           legacy_initialize(infrastructure_modules)

SpecStartup == InitStartup /\ [][NextStartup]_vars

\* The interfaces a resolution scenario asks for, and its classes: subclasses
\* of these or the interfaces themselves, abstract or not, imported by the
\* other module or not.
ResolvedInterfaces == {"event_emitter", "plain"}

ResolveClasses ==
    {c \in AdapterClasses : c.implements \in {"event_emitter", "plain"}}

\* The resolutions of a fixed pool: the modules are enabled, any interface is
\* resolved any number of times.
InitResolve ==
    /\ emitters = <<>>
    /\ DispatchIdle
    /\ primary_ports = <<>>
    /\ SchedulerIdle
    /\ suspended = NoSuspended
    /\ pool \in [1..MaxAdapters -> ResolveClasses]
    /\ \E modules \in ModuleLists \ {<<>>} :
           boot = [BootStart EXCEPT !.enabled_infrastructure_modules = modules]
    /\ singleton = NoSingleton
    /\ memo = NoMemo
    /\ sys_path = NoSysPath

NextResolve ==
    \E interface \in ResolvedInterfaces : get_adapters_call(interface)

SpecResolve == InitResolve /\ [][NextResolve]_vars

\* --------------------------------------------------------------- instance
\* The name argument of instance(): "None" is the default `name = None`.
Names == {"None", "app", "other"}

\* if name is None: name = cls.default_name()
NameUsed(name) == IF name = "None" THEN "default_name" ELSE name

\* Faulty variant: the singleton counts as missing until its hook is over.
SingletonUnfinished(s) == s.object = None \/ ~s.hook_completed

\* cls._singleton is None
SingletonMissing(s) == s.object = None

\* cls._singleton = cls(name): the objects are numbered as constructed.
Constructed(s, name) ==
    [s EXCEPT !.constructed = Append(@, name),
              !.object = Len(s.constructed) + 1]

\* A call of the asynchronous instance(name), up to where it returns or is
\* suspended inside after_bootstrap(); the hook of a subclass may await, the
\* one of PythonEDA does not. A return records the object returned and
\* whether the hook of the singleton was over.
instance_call(name, suspends) ==
    /\ singleton.version = "shared"
    /\ Len(singleton.names) < MaxCallers
    /\ LET caller == Len(singleton.names) + 1
           called == [singleton EXCEPT !.names = Append(@, name)]
       IN  IF SingletonMissing(singleton)
           THEN LET made == Constructed(called, NameUsed(name))
                IN  IF suspends
                    THEN singleton' =
                             [made EXCEPT !.awaiting = Append(@, caller)]
                    ELSE singleton' =
                             [made EXCEPT
                                 !.hook_completed = TRUE,
                                 !.returned = Append(@,
                                     [caller |-> caller, object |-> made.object,
                                      hook_completed |-> TRUE])]
           ELSE singleton' =
                    [called EXCEPT
                        !.returned = Append(@,
                            [caller |-> caller, object |-> singleton.object,
                             hook_completed |-> singleton.hook_completed])]
    /\ UNCHANGED <<pool, boot, memo, sys_path>>
    /\ UNCHANGED suspended
    /\ UNCHANGED dispatchVars
    /\ UNCHANGED schedVars

\* after_bootstrap() of the call that was suspended in it returns, and the
\* call returns cls._singleton.
after_bootstrap_done ==
    /\ singleton.awaiting # <<>>
    /\ singleton' =
           [singleton EXCEPT
               !.awaiting = Tail(@),
               !.hook_completed = TRUE,
               !.returned = Append(@,
                   [caller |-> Head(singleton.awaiting),
                    object |-> singleton.object,
                    hook_completed |-> TRUE])]
    /\ UNCHANGED <<pool, boot, memo, sys_path>>
    /\ UNCHANGED suspended
    /\ UNCHANGED dispatchVars
    /\ UNCHANGED schedVars

\* instance() of pythoneda.application: not a coroutine, no argument, no
\* hook.
legacy_instance_call ==
    /\ singleton.version = "legacy"
    /\ Len(singleton.names) < MaxCallers
    /\ LET caller == Len(singleton.names) + 1
           called == [singleton EXCEPT !.names = Append(@, "None")]
           made == IF SingletonMissing(singleton)
                   THEN Constructed(called, NameUsed("None")) ELSE called
       IN  singleton' =
               [made EXCEPT
                   !.returned = Append(@,
                       [caller |-> caller, object |-> made.object,
                        hook_completed |-> FALSE])]
    /\ UNCHANGED <<pool, boot, memo, sys_path>>
    /\ UNCHANGED suspended
    /\ UNCHANGED dispatchVars
    /\ UNCHANGED schedVars

InitSingleton ==
    /\ emitters = <<>>
    /\ DispatchIdle
    /\ primary_ports = <<>>
    /\ SchedulerIdle
    /\ suspended = NoSuspended
    /\ pool = <<>>
    /\ boot = BootStart
    /\ \E version \in {"shared", "legacy"} :
           singleton = [NoSingleton EXCEPT !.version = version]
    /\ memo = NoMemo
    /\ sys_path = NoSysPath

NextSingleton ==
    \/ \E name \in Names : \E suspends \in BOOLEAN :
           instance_call(name, suspends)
    \/ after_bootstrap_done
    \/ legacy_instance_call

SpecSingleton == InitSingleton /\ [][NextSingleton]_vars

\* --------------------------------------------------- memoised layer queries
Queries == {"is_domain_package", "is_infrastructure_package",
            "is_domain_module", "is_infrastructure_module"}

\* The HexagonalLayer that a query passes to _memoized.
LayerOf(query) ==
    IF query \in {"is_domain_package", "is_domain_module"}
    THEN "domain" ELSE "infrastructure"

\* The cache that a query of pythoneda.shared.application passes.
CacheOf(query) ==
    CASE query = "is_domain_package" -> "_domain_packages"
      [] query = "is_infrastructure_package" -> "_infrastructure_packages"
      [] query = "is_domain_module" -> "_domain_modules"
      [] query = "is_infrastructure_module" -> "_infrastructure_modules"

\* The cache that a query of pythoneda.application passes.
LegacyCacheOf(query) ==
    CASE query = "is_domain_package" -> "_domain_packages"
      [] query = "is_infrastructure_package" -> "_infrastructure_packages"
      [] query = "is_domain_module" -> "_domain_modules"
      [] query = "is_infrastructure_module" -> "_domain_modules"

\* is_of_type(path, type): what the file tree says, no cache involved.
is_of_type(path, layer) == memo.tree[path][layer]

Cached(value) == IF value THEN "True" ELSE "False"

\* _memoized(packagePath, type, cache, func): the answer and the cache after.
\*   result = cache.get(packagePath, None)
\*   if result is None: result = func(packagePath, type); cache[packagePath] = result
memoized(packagePath, layer, cache) ==
    LET found == memo.cache[cache][packagePath]
        result == IF found = "None" THEN is_of_type(packagePath, layer)
                  ELSE found = "True"
    IN  [result |-> result,
         cached |-> found # "None",
         cache |-> [memo.cache EXCEPT ![cache][packagePath] = Cached(result)]]

\* One of the four queries about a path.
query_layer(query, path) ==
    /\ LET answer == memoized(path, LayerOf(query),
                              IF memo.version = "shared" THEN CacheOf(query)
                              ELSE LegacyCacheOf(query))
       IN  memo' = [memo EXCEPT
                       !.cache = answer.cache,
                       !.last = [query |-> query, path |-> path,
                                 layer |-> LayerOf(query),
                                 result |-> answer.result,
                                 cached |-> answer.cached]]
    /\ UNCHANGED <<pool, boot, singleton, sys_path>>
    /\ UNCHANGED suspended
    /\ UNCHANGED dispatchVars
    /\ UNCHANGED schedVars

\* Any file tree, which does not change, and empty caches.
InitMemo ==
    /\ emitters = <<>>
    /\ DispatchIdle
    /\ primary_ports = <<>>
    /\ SchedulerIdle
    /\ suspended = NoSuspended
    /\ pool = <<>>
    /\ boot = BootStart
    /\ singleton = NoSingleton
    /\ \E version \in {"shared", "legacy"} :
       \E tree \in [Paths -> [Layers -> BOOLEAN]] :
           memo = [NoMemo EXCEPT !.version = version, !.tree = tree]
    /\ sys_path = NoSysPath

NextMemo ==
    \E query \in Queries : \E path \in Paths : query_layer(query, path)

SpecMemo == InitMemo /\ [][NextMemo]_vars

\* ------------------------------------------------------------ fix_syspath
\* An absolute directory is the sequence of its components; <<>> is "/".
basename(path) == IF path = <<>> THEN "" ELSE path[Len(path)]

dirname(path) == IF path = <<>> THEN <<>> ELSE SubSeq(path, 1, Len(path) - 1)

\* The entries sys.path is drawn from: a directory outside any site-packages,
\* a site-packages directory, two directories below it, and a directory
\* below another site-packages directory.
SysPathEntries ==
    {<<"usr", "lib">>,
     <<"venv", "site-packages">>,
     <<"venv", "site-packages", "pythoneda">>,
     <<"venv", "site-packages", "acme">>,
     <<"nix", "site-packages", "acme">>}

RECURSIVE FindRootFrom(_, _)
FindRootFrom(working_path, path) ==
    IF basename(working_path) = "site-packages" THEN working_path
    ELSE IF dirname(working_path) = working_path THEN path
    ELSE FindRootFrom(dirname(working_path), path)

find_root_of(path) == FindRootFrom(path, path)

\* list.remove(x): the first occurrence of x leaves the list.
remove(list, x) ==
    IF x \notin Range(list) THEN list
    ELSE LET n == CHOOSE k \in 1..Len(list) :
                      list[k] = x /\ \A j \in 1..(k - 1) : list[j] # x
         IN  SubSeq(list, 1, n - 1) \o SubSeq(list, n + 1, Len(list))

RECURSIVE RemoveAll(_, _)
RemoveAll(list, paths_to_remove) ==
    IF paths_to_remove = <<>> THEN list
    ELSE RemoveAll(remove(list, Head(paths_to_remove)), Tail(paths_to_remove))

\* The entries of the first loop whose root is another directory, in order.
PathsToRemove(list) == SelectSeq(list, LAMBDA path : find_root_of(path) # path)

PathsToAdd(list) ==
    [n \in 1..Len(PathsToRemove(list)) |-> find_root_of(PathsToRemove(list)[n])]

fix_syspath ==
    /\ ~sys_path.fixed
    /\ sys_path' = [sys_path EXCEPT
           !.path = RemoveAll(@, PathsToRemove(@)) \o PathsToAdd(@),
           !.fixed = TRUE]
    /\ UNCHANGED <<dispatchVars, schedVars, suspended>>
    /\ UNCHANGED <<pool, boot, singleton, memo>>

RECURSIVE SysPaths(_)
SysPaths(n) ==
    IF n = 0 THEN {<<>>}
    ELSE SysPaths(n - 1) \cup
         {Append(list, entry) : list \in SysPaths(n - 1), entry \in SysPathEntries}

InitSysPath ==
    /\ emitters = <<>>
    /\ DispatchIdle
    /\ primary_ports = <<>>
    /\ SchedulerIdle
    /\ suspended = NoSuspended
    /\ pool = <<>>
    /\ boot = BootStart
    /\ singleton = NoSingleton
    /\ memo = NoMemo
    /\ \E list \in SysPaths(MaxPath) :
           sys_path = [path |-> list, original |-> list, fixed |-> FALSE]

NextSysPath == fix_syspath

SpecSysPath == InitSysPath /\ [][NextSysPath]_vars

\* ----------------------------------------------------------------- claims
Returned == status = "returned"

\* The outer call returned and one_shot was not written while it ran.
ReturnedStable == Returned /\ ~flagChanged

GivenResult(r) == IF r = Unset THEN <<>> ELSE r

\* The events that dispatching e produces at once, under a value of the flag:
\* what the listeners invoked return and what the self-trigger returns.
ProducedBy(e, flag) ==
    UNION {Range(GivenResult(l.returns)) :
              l \in {x \in Range(Given(listeners[TypeOf(e)])) :
                         ListenerEnabled(flag, x.kind)}}
        \cup Range(GivenResult(triggers[e]))

RECURSIVE ReachFrom(_, _)
ReachFrom(S, flag) ==
    LET T == S \cup UNION {ProducedBy(e, flag) : e \in S}
    IN IF T = S THEN S ELSE ReachFrom(T, flag)

\* The events transitively produced from the events of S.
Closure(S, flag) == UNION {ProducedBy(e, flag) : e \in ReachFrom(S, flag)}

\* Some event transitively produces itself, with every listener invoked.
Cyclic == \E e \in 1..known : e \in Closure({e}, FALSE)

NoDuplicates(s) == \A m, n \in 1..Len(s) : m # n => s[m] # s[n]

HasPriority(primaryPort) ==
    primaryPort.has_default_priority \/ primaryPort.has_priority

\* C1 (as claimed): accept_input invokes the entry points in ascending order of
\* priority, and an entry point that has neither an instance priority nor a
\* default priority after every entry point that has a priority.
C1_UndefinedLast ==
    \A m, n \in 1..Len(entered) :
        LET first == entered[m].class
            second == entered[n].class
        IN m < n =>
            /\ (HasPriority(first) /\ HasPriority(second)) =>
                   delegate_priority(first) <= delegate_priority(second)
            /\ ~(~HasPriority(first) /\ HasPriority(second))

\* A run of accept_input of the earlier class.
LegacyRun == input_pc \in {"legacy_loop", "legacy_done", "legacy_raised"}

\* A step of accept_input, of either class.
SchedulerStep ==
    \/ accept_input_call
    \/ accept_input_configure
    \/ accept_input_entrypoint
    \/ accept_input_entrypoint_done
    \/ accept_input_return
    \/ legacy_accept_input_call
    \/ legacy_accept_input_port
    \/ legacy_accept_input_port_done
    \/ legacy_accept_input_return

\* The sort key that the run of accept_input used for a primary port class.
KeyUsed(primaryPort) ==
    IF LegacyRun
    THEN legacy_delegate_priority(primaryPort, port_facts[primaryPort.id].construction)
    ELSE delegate_priority(primaryPort)

\* C2 (as claimed): an outer accept call terminates for every binding, cyclic
\* ones included: the call chain never dies of the recursion limit.
C2_AcceptTerminates == status # "RecursionError"

\* C3: accept retains no state between outer calls: a call given the events
\* of an earlier call, with the same value of one_shot and no write of it
\* during either call, returns the list the earlier call returned.
C3_NoStateRetained ==
    (/\ ReturnedStable
     /\ prev.stable
     /\ prev.input = input
     /\ prev.flag = flagAtStart) => outcome = prev.result

\* C3 witness: the second accept(A) has returned [B], B from A's listener.
C3_Witness ==
    /\ ReturnedStable
    /\ prev.stable
    /\ prev.input = <<1>>
    /\ input = <<1>>
    /\ prev.flag = flagAtStart
    /\ Len(Given(listeners[TypeOf(1)])) = 1
    /\ listeners[TypeOf(1)][1].returns = <<2>>
    /\ outcome = <<2>>

\* C4: no list that accept returns or builds holds two equal events.
C4_NoDuplicates ==
    /\ Returned => NoDuplicates(outcome)
    /\ \A n \in 1..Len(stack) :
          /\ NoDuplicates(stack[n].first_events)
          /\ NoDuplicates(stack[n].result)
          /\ NoDuplicates(stack[n].aux)

\* C4 witness: two listeners of A both returned C, and accept returned [C].
C4_Witness ==
    /\ Returned
    /\ input = <<1>>
    /\ Len(Given(listeners[TypeOf(1)])) = 2
    /\ listeners[TypeOf(1)][1].returns = <<2>>
    /\ listeners[TypeOf(1)][2].returns = <<2>>
    /\ outcome = <<2>>

\* C5 (as claimed): the list an outer call returns holds no event the call
\* was given, for one event and for a list of events.
C5_InputExcluded == Returned => Range(outcome) \cap Range(input) = {}

\* C5 (amended): the list an outer call returns holds an event the call was
\* given only if another event given to the call transitively produces it
\* (one_shot not written during the call): a call given one event never
\* returns that event.
C5_InputOnlyIfProduced ==
    ReturnedStable =>
        \A e \in Range(input) \cap Range(outcome) :
            e \in Closure(Range(input) \ {e}, flagAtStart)

\* C5 witness: accept([A, B]) returned B, which a listener of A produced, and
\* an earlier accept(A) returned a list without A.
C5_Witness ==
    /\ ReturnedStable
    /\ input = <<1, 2>>
    /\ 2 \in Range(outcome)
    /\ 2 \in ProducedBy(1, flagAtStart)
    /\ 1 \notin Range(outcome)

\* C6 (as claimed): the list an outer call of accept returns, of either class,
\* holds exactly the events transitively produced from its events by the
\* listeners invoked and the self-triggers (one_shot not written during the
\* call); and the call chain dies of the recursion limit only when the
\* production relation is cyclic.
C6_ExactClosure ==
    /\ ReturnedStable => Range(outcome) = Closure(Range(input), flagAtStart)
    /\ status = "RecursionError" => Cyclic

\* C7: while one_shot is true, accept does not invoke a listener that is a
\* primary port marked not one-shot-compatible.
C7_IncompatibleNotInvoked ==
    (/\ lastDecision.event # 0
     /\ lastDecision.flag
     /\ lastDecision.kind = "primary_incompatible") => ~lastDecision.invoked

\* C7 witness: accept met such a listener, bound to the event's class, while
\* one_shot was true.
C7_Witness ==
    /\ lastDecision.event # 0
    /\ lastDecision.flag
    /\ lastDecision.kind = "primary_incompatible"
    /\ ~lastDecision.invoked

\* C8 (as claimed): the listeners an accept call invokes are those that the
\* value one_shot had when the call was made lets through.
C8_FlagFixedForCall ==
    (lastDecision.event # 0 /\ lastDecision.kind # "unread") =>
        lastDecision.invoked = ListenerEnabled(lastDecision.start, lastDecision.kind)

\* C8 (amended): every listener test of accept uses the value one_shot has at
\* the moment of the test, also when it was written since the call was made.
C8_FlagReadAtEachTest ==
    lastDecision.event # 0 =>
        lastDecision.invoked = ListenerEnabled(lastDecision.flag, lastDecision.kind)

\* C8 witness: a listener was tested after one_shot was written during the
\* call, and the test went the other way than the old value would have it.
C8_Witness ==
    /\ lastDecision.event # 0
    /\ lastDecision.kind # "unread"
    /\ lastDecision.flag # lastDecision.start
    /\ lastDecision.invoked # ListenerEnabled(lastDecision.start, lastDecision.kind)

\* C9: the events that the self-trigger of a dispatched event returns are in
\* the list accept returns, listeners bound or not.
C9_SelfTriggered ==
    /\ \A n \in 1..Len(stack) :
          stack[n].pc = "recurse" =>
              \A e \in Range(stack[n].events) :
                  Range(GivenResult(triggers[e])) \subseteq Range(stack[n].result)
    /\ Returned =>
          \A e \in Range(input) : Range(GivenResult(triggers[e])) \subseteq Range(outcome)

\* C9 witness: accept(A) returned D, which A's self-trigger produced, and no
\* listener is bound to A's class.
C9_Witness ==
    /\ Returned
    /\ input = <<1>>
    /\ listeners[TypeOf(1)] = <<>>
    /\ triggers[1] = <<2>>
    /\ 2 \in Range(outcome)

\* A step of the accept call in progress.
AcceptStep == accept_listener \/ accept_trigger \/ accept_recurse \/ accept_return

\* C10: with no event emitter registered, the emit tasks call nothing, and an
\* accept call in progress while emit tasks are pending can take its next
\* step: it does not wait for them.
C10_NoEmitter ==
    (\A n \in 1..Len(emitters) : emitters[n] = None) =>
        /\ delivered = <<>>
        /\ (stack # <<>> /\ tasks # <<>>) => ENABLED AcceptStep

\* C10 witness: with no emitter, accept returned its closure and every emit
\* task it created has run.
C10_Witness ==
    /\ \A n \in 1..Len(emitters) : emitters[n] = None
    /\ Returned
    /\ outcome # <<>>
    /\ scheduled # <<>>
    /\ tasks = <<>>

\* C12 (as claimed): while one_shot is true, accept_input does not call the
\* entrypoint of a primary port that is not one-shot-compatible, and
\* accept_input of the class of pythoneda.shared.application, which has no
\* other reason to pass a port over, calls every other one.
C12_OneShotFiltered ==
    /\ \A n \in 1..Len(entered) :
          ~(entered[n].one_shot /\ entered[n].compatible = "no")
    /\ input_pc = "done" => Len(entered) = Len(primary_ports)

\* C13 (as claimed): a primary port that cannot be instantiated does not halt
\* accept_input: no exception of its construction leaves accept_input.
C13_UninstantiableSkipped == raised # "constructor"

\* C14: an exception of entrypoint leaves accept_input, and after it no step
\* of accept_input is taken: no later entry point is invoked.
C14_EntrypointExceptionPropagates ==
    raised = "entrypoint" =>
        /\ input_pc \in {"raised", "legacy_raised"}
        /\ ~ENABLED SchedulerStep

\* C14 witness: the entrypoint of the first of two ports raised, and the
\* second port, instantiated and configured, was not entered.
C14_Witness ==
    /\ raised = "entrypoint"
    /\ input_pc = "raised"
    /\ Len(primary_port_instances) = 2
    /\ Len(entered) = 1

\* C17: entry points of equal sort key, two without any priority included,
\* are invoked in the order of their registration in primary_ports.
C17_StableSort ==
    \A m, n \in 1..Len(entered) :
        (m < n /\ KeyUsed(entered[m].class) = KeyUsed(entered[n].class))
            => entered[m].class.id < entered[n].class.id

\* C17 witness: two entry points without any priority were invoked by
\* accept_input of pythoneda.shared.application, the one registered first
\* before the other.
C17_Witness ==
    /\ ~LegacyRun
    /\ Len(entered) = 2
    /\ KeyUsed(entered[1].class) = KeyUsed(entered[2].class)
    /\ ~entered[1].class.has_priority /\ ~entered[1].class.has_default_priority
    /\ ~entered[2].class.has_priority /\ ~entered[2].class.has_default_priority

\* The priority of the claim: priority() whenever the class has it, else
\* default_priority(), else the lowest.
InstancePriorityFirst(primaryPort) ==
    IF primaryPort.has_priority THEN primaryPort.priority
    ELSE IF primaryPort.has_default_priority THEN primaryPort.default_priority
    ELSE -1

\* The same, except that the earlier class asks an instance for priority()
\* and falls back when it can make none.
InstancePriorityIfInstance(primaryPort) ==
    IF primaryPort.has_priority
       /\ (LegacyRun => port_facts[primaryPort.id].construction # "none")
    THEN primaryPort.priority
    ELSE IF primaryPort.has_default_priority THEN primaryPort.default_priority
    ELSE -1

\* C18 (as claimed): the sort key of every primary port is its priority()
\* whenever it has one, whether or not it has default_priority() too.
C18_InstancePriorityAlways ==
    \A n \in 1..Len(sorted_primary_ports) :
        KeyUsed(sorted_primary_ports[n]) = InstancePriorityFirst(sorted_primary_ports[n])

\* C18 (amended): the sort key of a primary port is its priority() whenever
\* it has one and, in the earlier class, an instance of it can be made; it
\* is default_priority() otherwise; and the entry points that are invoked
\* are invoked in ascending order of priority(), default_priority() for those
\* without priority().
C18_InstancePriorityOverrides ==
    /\ \A n \in 1..Len(sorted_primary_ports) :
          KeyUsed(sorted_primary_ports[n])
              = InstancePriorityIfInstance(sorted_primary_ports[n])
    /\ \A m, n \in 1..Len(entered) :
          m < n => InstancePriorityFirst(entered[m].class)
                       <= InstancePriorityFirst(entered[n].class)

\* C18 witness: a port with priority() below its default_priority() was
\* invoked before a port registered earlier whose priority equals that
\* default_priority(): sorted by the default, it would have come second.
C18_Witness ==
    /\ Len(entered) = 2
    /\ entered[1].class.has_priority /\ entered[1].class.has_default_priority
    /\ entered[1].class.priority < entered[1].class.default_priority
    /\ entered[1].class.id > entered[2].class.id
    /\ InstancePriorityFirst(entered[2].class) = entered[1].class.default_priority

\* C19: at most one entrypoint is in progress at any time.
C19_Sequential == Len(in_progress) <= 1

\* C19 witness: the entrypoint of the second port is in progress, after the
\* entrypoint of the first one returned.
C19_Witness ==
    /\ input_pc = "configure"
    /\ Len(entered) = 2
    /\ in_progress = <<entered[2].class.id>>
    /\ raised = "nothing"

\* C15 (as claimed): every event of the list that an outer accept call
\* returned, whether a listener returned it or maybe_trigger() did, was given
\* to emit during that call.
C15_ReturnedEventsEmitted ==
    Returned => Range(outcome) \subseteq Range(scheduled)

\* C16 (as claimed, for events that do not produce one another in a cycle):
\* within one outer accept call no event is dispatched to its listeners more
\* than once: no nested accept call is given an event that an earlier nested
\* call of the same outer call, by now returned, had dispatched and returned.
C16_DispatchedOnce ==
    ~Cyclic =>
        \A n \in 2..Len(stack) : \A m \in 1..(n - 1) :
            stack[n].events[1] \notin Range(stack[m].aux)

\* accept has handled the listener class: called it, or passed it over after
\* reading what it is.
Handled(listener) == listener.kind # "unread" \/ listener.returns # Unset

\* C20: the listener classes of an event class are handled in the order of
\* the list that listeners_for returns: a class is handled only when every
\* class before it in the list has been, and the class that the loop of accept
\* is at comes after the classes before it have returned their results.
C20_ListenersInOrder ==
    /\ \A type \in Types : \A m, n \in 1..Len(Given(listeners[type])) :
          (m < n /\ Handled(listeners[type][n])) => Handled(listeners[type][m])
    /\ (stack # <<>> /\ Top.pc = "fanout" /\ Top.j > 1) =>
          \A m \in 1..(Top.j - 1) :
              /\ Handled(listeners[TypeOf(Top.events[Top.i])][m])
              /\ (~one_shot /\ ~flagChanged) =>
                     listeners[TypeOf(Top.events[Top.i])][m].returns # Unset

\* C20 witness: of the two listener classes of the event, the first one has
\* returned its events and the second one has not been called yet.
C20_Witness ==
    /\ stack # <<>> /\ Top.pc = "fanout" /\ Top.j = 2
    /\ Len(Given(listeners[TypeOf(Top.events[Top.i])])) = 2
    /\ listeners[TypeOf(Top.events[Top.i])][1].returns \notin {Unset, <<>>}
    /\ ~Handled(listeners[TypeOf(Top.events[Top.i])][2])

\* The emitters that a run of emit has to call: the entries resolved that are
\* not None, in the order of the resolution.
Resolved == SelectSeq(emitters, LAMBDA event_emitter : event_emitter # None)

\* C21: a run of emit(event) in which no emitter raises calls every emitter
\* resolved with the event, each entry once and in the order of the
\* resolution, and calls nothing when no emitter is resolved.
C21_EmitCallsEveryEmitter ==
    [][emit =>
          /\ Len(delivered') = Len(delivered) + Len(Resolved)
          /\ \A n \in 1..Len(delivered) : delivered'[n] = delivered[n]
          /\ \A n \in 1..Len(Resolved) :
                delivered'[Len(delivered) + n] = <<Resolved[n], Head(tasks)>>]_vars

\* C21 witness: two different emitters are resolved and one event has been
\* emitted: the first emitter was called with it, then the second.
C21_Witness ==
    /\ Len(emitters) = 2 /\ emitters[1] # None /\ emitters[2] # None
    /\ emitters[1] # emitters[2]
    /\ tasks = <<>>
    /\ Len(scheduled) = 1
    /\ delivered = <<(<<emitters[1], scheduled[1]>>), (<<emitters[2], scheduled[1]>>)>>

\* Where an event stands in a list that holds it.
Pos(s, e) == CHOOSE n \in 1..Len(s) : s[n] = e

\* C22: the list that an outer accept call returned is in the order of first
\* production: each of its events was produced during the call, and of any two
\* of them the one first produced earlier comes first.
C22_FirstDiscoveredOrder ==
    Returned =>
        /\ Range(outcome) \subseteq Range(produced)
        /\ \A m, n \in 1..Len(outcome) :
              m < n => Pos(produced, outcome[m]) < Pos(produced, outcome[n])

\* C22 witness: accept(A) returned [B, C, D], where A produced B and C and the
\* recursive call on B produced D: both first-generation events come before D.
C22_Witness ==
    /\ Returned
    /\ Len(input) = 1
    /\ Len(outcome) = 3
    /\ {outcome[1], outcome[2]} \subseteq ProducedBy(input[1], FALSE)
    /\ outcome[3] \in ProducedBy(outcome[1], FALSE)
    /\ outcome[3] \notin ProducedBy(input[1], FALSE)
    /\ outcome[3] \notin ProducedBy(outcome[2], FALSE)

\* C23: one_shot is False after __init__, and a step changes it only if it is
\* a step of accept_one_shot: no step of accept or of emit writes it.
C23_FlagWrittenByHandlerOnly ==
    /\ one_shot = FALSE
    /\ [][one_shot' # one_shot => \E flag \in BOOLEAN : accept_one_shot(flag)]_vars

\* C23 witness: the flag was set before an outer accept call and is still set
\* after the call dispatched, returned events and had one of them emitted.
C23_Witness ==
    /\ Returned
    /\ flagAtStart /\ ~flagChanged /\ one_shot
    /\ outcome # <<>>
    /\ delivered # <<>>

\* C28: accept passes a listener class over exactly when one_shot is true and
\* the class is a primary port that is not one-shot-compatible; a class that
\* is not a primary port is called whatever one_shot is.
C28_SkippedExactlyWhen ==
    lastDecision.event # 0 =>
        /\ ~lastDecision.invoked <=>
               (lastDecision.flag /\ lastDecision.kind = "primary_incompatible")
        /\ lastDecision.kind = "listener" => lastDecision.invoked

\* C28 witness: while one_shot was true, accept called a listener class that
\* is a one-shot-compatible primary port.
C28_Witness ==
    /\ lastDecision.event # 0
    /\ lastDecision.flag
    /\ lastDecision.kind = "primary_compatible"
    /\ lastDecision.invoked

RECURSIVE ListenerResults(_, _)
\* What the listener classes of ls that the flag lets through return, one
\* list after the other.
ListenerResults(ls, flag) ==
    IF ls = <<>> THEN <<>>
    ELSE (IF ListenerEnabled(flag, Head(ls).kind)
          THEN GivenResult(Head(ls).returns) ELSE <<>>)
             \o ListenerResults(Tail(ls), flag)

RECURSIVE FirstProduced(_, _)
\* What the events of a list produce at once, event after event: the results
\* of the listeners, then those of the self-trigger.
FirstProduced(events, flag) ==
    IF events = <<>> THEN <<>>
    ELSE ListenerResults(Given(listeners[TypeOf(Head(events))]), flag)
             \o GivenResult(triggers[Head(events)])
             \o FirstProduced(Tail(events), flag)

RECURSIVE ListOf(_, _)
RECURSIVE ListsOf(_, _, _)
\* The list that the bindings alone assign to a list of events: the first
\* generation, then what the lists of its events add, in order.
ListOf(events, flag) ==
    LET first == extend_missing_items(<<>>, FirstProduced(events, flag))
    IN extend_missing_items(first, ListsOf(first, <<>>, flag))

ListsOf(events, aux, flag) ==
    IF events = <<>> THEN aux
    ELSE ListsOf(Tail(events),
                 extend_missing_items(aux, ListOf(<<Head(events)>>, flag)), flag)

\* C30: accept does not wait for the emit tasks: a call in progress can take
\* its next step while tasks it created are pending; and the list it returns
\* is the one the listener bindings and self-triggers assign to its events,
\* whatever has become of the tasks (one_shot not written during the call,
\* no cycle of production).
C30_NeverWaitsForEmission ==
    /\ (stack # <<>> /\ tasks # <<>>) => ENABLED AcceptStep
    /\ (ReturnedStable /\ ~Cyclic) => outcome = ListOf(input, flagAtStart)

\* C30 witness: with two emitters resolved, accept recursed into the event
\* that a listener returned and returned its list while the emit task created
\* for that event has not run yet.
C30_Witness ==
    /\ Returned
    /\ outcome # <<>>
    /\ Len(Resolved) = 2
    /\ scheduled = outcome
    /\ tasks = scheduled
    /\ delivered = <<>>

\* C29: once a listener has raised during accept, no call of accept is left
\* in progress, at any depth (no later listener of the event is called, its
\* maybe_trigger() is not, nothing is dispatched any more), and no list is
\* returned.
C29_ListenerExceptionPropagates ==
    status = "raised" =>
        /\ stack = <<>>
        /\ outcome = <<>>
        /\ ~ENABLED AcceptStep

\* C29 witness: the first of the two listeners of an event dispatched by a
\* nested call raised: the second listener was not called, the event's
\* maybe_trigger() has not run, and the outer call returned nothing.
C29_Witness ==
    /\ status = "raised"
    /\ Len(input) = 1
    /\ lastDecision.event # input[1]
    /\ Len(Given(listeners[TypeOf(lastDecision.event)])) = 2
    /\ ~Handled(listeners[TypeOf(lastDecision.event)][2])
    /\ triggers[lastDecision.event] = Unset
    /\ outcome = <<>>

ZeroAdapters(port, modules, adapters) ==
    /\ \A c \in 1..MaxAdapters :
           ~(/\ pool[c].implements = port
             /\ ~pool[c].itself
             /\ ~pool[c].abstract
             /\ \E n \in 1..Len(modules) :
                    pool[c].module = modules[n] \/ pool[c].imported)
    /\ \A n \in 1..Len(adapters) : pool[0 - adapters[n]].implements # port

Warned(b, port) ==
    \E n \in 1..Len(b.logged) :
        b.logged[n].port = port /\ b.logged[n].level \in {"info", "error"}

NoModulesLogged(b) ==
    \E n \in 1..Len(b.logged) :
        b.logged[n].level = "error" /\ b.logged[n].port = ""

\* What C25 asks of a run of initialize over the ports, from startup b with
\* the given modules to startup after.
ZeroAdaptersHandled(b, after, modules, ports, exempt) ==
    /\ after.initialized
    /\ \A n \in 1..Len(ports) :
           LET port == ports[n]
           IN  IF ZeroAdapters(port, modules,
                               b.enabled_infrastructure_adapters)
               THEN IF port \in exempt
                    THEN ~Warned(after, port)
                    ELSE IF modules = <<>>
                         THEN NoModulesLogged(after)
                         ELSE Warned(after, port)
               ELSE modules # <<>> =>
                        /\ after.mappings[port] # Unset
                        /\ after.mappings[port] # <<>>

C26_EnableAlwaysCalled ==
    \A n \in 1..Len(boot.applied) :
        LET a == boot.applied[n]
        IN  a.adapter > 0 =>
                /\ Contains(boot.enable_calls, <<a.adapter, a.args>>)
                /\ Contains(boot.enabled_infrastructure_modules,
                            pool[a.adapter].module)

\* C27: once the application of pythoneda.shared.application has initialized,
\* every instance given to enable(instance) is among the implementations
\* mapped to each domain port it is an instance of.
C27_InstancesRegistered ==
    boot.initialized =>
        \A n \in 1..Len(boot.enabled_infrastructure_adapters) :
            LET adapter == boot.enabled_infrastructure_adapters[n]
            IN  \A k \in 1..Len(domain_ports) :
                    pool[0 - adapter].implements = domain_ports[k] =>
                        /\ boot.ports_initialized
                        /\ Contains(boot.mappings[domain_ports[k]], adapter)

\* C33: within one outer call of accept no event is given twice to
\* create_task(self.emit(...)).
C33_ScheduledOncePerEvent ==
    NoDuplicates(scheduled)

C35_ConfiguredBeforeEntrypoints ==
    ~LegacyRun =>
        /\ entered # <<>> =>
               /\ Len(configured) = Len(primary_ports)
               /\ \A n \in 1..Len(primary_ports) :
                      \E m \in 1..Len(configured) :
                          configured[m].class = primary_ports[n]
        /\ \A m, n \in 1..Len(configured) :
               m < n => delegate_priority(configured[m].class)
                            <= delegate_priority(configured[n].class)
        /\ \A m, n \in 1..Len(entered) :
               m < n => delegate_priority(entered[m].class)
                            <= delegate_priority(entered[n].class)

\* C35 witness: two ports registered against their priorities were both
\* configured, then both entered, each time the one of lower priority first.
C35_Witness ==
    /\ ~LegacyRun
    /\ Len(configured) = 2
    /\ Len(entered) = 2
    /\ entered[1].class.id > entered[2].class.id
    /\ configured[1].class.id > configured[2].class.id
    /\ delegate_priority(entered[1].class) < delegate_priority(entered[2].class)

\* C32: the list get_adapters returns for an interface holds only subclasses
\* of the interface found in the modules inspected, never the interface
\* itself, never a class with abc.ABC among its bases, and no class twice,
\* also when both modules hold the class.
C32_OnlyConcreteAdaptersOnce ==
    LET result == boot.last_resolved.result
        interface == boot.last_resolved.interface
    IN  /\ NoDuplicates(result)
        /\ \A n \in 1..Len(result) :
               /\ result[n] \in 1..MaxAdapters
               /\ pool[result[n]].implements = interface
               /\ ~pool[result[n]].itself
               /\ ~pool[result[n]].abstract
               /\ \E m \in 1..Len(boot.enabled_infrastructure_modules) :
                      \/ pool[result[n]].module =
                             boot.enabled_infrastructure_modules[m]
                      \/ pool[result[n]].imported

\* C32 witness: both modules are inspected and both hold the adapter that the
\* call returned, once; the interface itself is among the classes and was
\* left out.
C32_Witness ==
    /\ Len(boot.enabled_infrastructure_modules) = 2
    /\ Len(boot.last_resolved.result) = 1
    /\ pool[boot.last_resolved.result[1]].imported
    /\ \E c \in 1..MaxAdapters :
           /\ pool[c].implements = boot.last_resolved.interface
           /\ pool[c].itself
           /\ ~pool[c].abstract

\* C31: two outer calls of accept that interleave where they await share no
\* dedup record: with one_shot not written, each of them returns the list
\* that the listener bindings and self-triggers assign to its own events, as
\* a call running alone does (no cycle of production).
C31_ConcurrentCallsIndependent ==
    ~Cyclic =>
        /\ ReturnedStable => outcome = ListOf(input, flagAtStart)
        /\ (suspended.status = "returned" /\ ~suspended.flagChanged) =>
               suspended.outcome = ListOf(suspended.input, suspended.flagAtStart)

\* C31 witness: two calls given the same event ran in turns, each resumed
\* while the other was in progress; both returned the event's list, which is
\* not empty.
C31_Witness ==
    /\ Returned
    /\ suspended.status = "returned"
    /\ suspended.overlapped
    /\ input = suspended.input
    /\ outcome # <<>>
    /\ outcome = suspended.outcome
    /\ prev = NoCall

\* C36: once initialize of pythoneda.shared.application has run, every
\* message logged before logging was configured has been delivered to the
\* logger, once and in the order logged, ahead of the messages logged after.
C36_PendingDelivered ==
    boot.initialized =>
        /\ Len(boot.logger) >= Len(boot.pending_logging)
        /\ SubSeq(boot.logger, 1, Len(boot.pending_logging))
               = boot.pending_logging
        /\ \A n \in 1..Len(boot.pending_logging) :
               \A m \in 1..Len(boot.logger) :
                   boot.logger[m] = boot.pending_logging[n] => m = n

\* C37: whatever the calls of instance() and their interleaving, the
\* application is constructed at most once, every call returns that object,
\* and the name it was constructed with is the one of the first call.
C37_ConstructedOnce ==
    /\ Len(singleton.constructed) <= 1
    /\ \A n \in 1..Len(singleton.returned) : singleton.returned[n].object = 1
    /\ singleton.names # <<>> =>
           singleton.constructed = <<NameUsed(singleton.names[1])>>

\* C37 witness: three calls with three names; the first one was suspended in
\* its hook while the second returned, and all returned the same object.
C37_Witness ==
    /\ singleton.version = "shared"
    /\ Len(singleton.returned) = 3
    /\ singleton.returned[1].caller = 2
    /\ singleton.names[1] # singleton.names[2]
    /\ singleton.names[2] # singleton.names[3]
    /\ singleton.constructed = <<singleton.names[1]>>

\* C38: no call of the asynchronous instance() returns the singleton before
\* after_bootstrap() of the singleton has returned.
C38_ReturnedAfterHook ==
    singleton.version = "shared" =>
        \A n \in 1..Len(singleton.returned) :
            singleton.returned[n].hook_completed

\* C39: on an unchanged file tree every memoised query returns what
\* is_of_type returns for its path and its layer, whatever was asked before.
C39_MemoisedIsUncached ==
    memo.last.query # "none" =>
        memo.last.result = is_of_type(memo.last.path, memo.last.layer)

Occurrences(list, x) == Cardinality({n \in 1..Len(list) : list[n] = x})

\* C40: after fix_syspath no entry of sys.path lies below a site-packages
\* directory, every such original entry has its site-packages root in
\* sys.path, and each of these roots occurs in sys.path once.
C40_RootsOccurOnce ==
    sys_path.fixed =>
        /\ \A path \in Range(sys_path.path) : find_root_of(path) = path
        /\ \A path \in Range(sys_path.original) :
               find_root_of(path) # path =>
                   Occurrences(sys_path.path, find_root_of(path)) = 1

====
